---- MODULE Spec2Model ----
(***************************************************************************)
(* A model of the release planner/executor of src/release/releaser.go, of  *)
(* the kubectl sync engine of src/unnamed/part_000 and of the result-map   *)
(* filter pipeline exercised by Test_FilterLogic / Test_ImageStatus.       *)
(***************************************************************************)
EXTENDS Integers, Sequences, FiniteSets, TLC

(***************************************************************************)
(* Bounds and program constants                                            *)
(***************************************************************************)
maxSimultaneousReleases == 1

NumCallers == 2
MaxTag == 2
MaxContainers == 2
MaxListedContainers == 1
MaxFiles == 2
MaxStaged == 3
MaxWarmTags == 2
MaxBurst == 2
MaxMinutes == 3
MaxTicks == 2

Callers == 1..NumCallers
Services == {"s1", "s2"}
Repos == {"r1", "r2"}
Tags == 1..MaxTag

\* flux.ImageID: a repository and a tag
Images == [repo : Repos, tag : Tags]

ServiceSpecAll == "<all>"
BadServiceSpec == "not/a/service/id"
ImageSpecLatest == [repo |-> "<all latest>", tag |-> 0]
ImageSpecNone == [repo |-> "<no updates>", tag |-> 0]
ReleaseKindPlan == "plan"
ReleaseKindExecute == "execute"

\* flux.ReleaseJob.Spec
Jobs ==
  [ServiceSpec : {ServiceSpecAll, BadServiceSpec} \cup Services,
   ImageSpec : {ImageSpecLatest, ImageSpecNone} \cup Images,
   Kind : {ReleaseKindPlan, ReleaseKindExecute},
   Excludes : SUBSET Services]

NoJob ==
  [ServiceSpec |-> "", ImageSpec |-> ImageSpecNone, Kind |-> "", Excludes |-> {}]

\* error values returned by Release
ErrNil == "nil"
ErrInProgress == "a release is already in progress; please try again later"
ErrParse == "parsing service ID from spec"
ErrPlan == "planner error"
ErrAction == "action error"
Panicked == "panic"

(***************************************************************************)
(* Helpers                                                                 *)
(***************************************************************************)
ToSet(s) == {s[i] : i \in DOMAIN s}

Perms(S) ==
  {f \in [1..Cardinality(S) -> S] : \A i, j \in DOMAIN f : i # j => f[i] # f[j]}

RECURSIVE Flatten(_)
Flatten(ss) == IF ss = <<>> THEN <<>> ELSE Head(ss) \o Flatten(Tail(ss))

\* a set that holds no service
Contains_Never(set, id) == FALSE

\* ServiceIDSet.Contains
Contains(set, id) == id \in set

\* ServiceIDs.Without
Without(ids, set) == SelectSeq(ids, LAMBDA id : ~Contains(set, id))

\* flux.ParseServiceID: fails on a malformed identifier
ParseServiceIDFails(spec) == spec \notin Services

\* ImageID.Repository
Repository(img) == img.repo

(***************************************************************************)
(* Release actions (flux.ReleaseAction): the description and the data the  *)
(* Do closure captures.                                                    *)
(***************************************************************************)
MkAction(type, text, service, services, regrades) ==
  [type |-> type, text |-> text, service |-> service,
   services |-> services, regrades |-> regrades]

NoAction == MkAction("", "", "", <<>>, <<>>)

releaseActionPrintf(text) == MkAction("Printf", text, "", <<>>, <<>>)
releaseActionClone == MkAction("Clone", "Clone the config repo.", "", <<>>, <<>>)
releaseActionFindPodController(service) ==
  MkAction("FindPodController", "Load the resource definition file", service, <<>>, <<>>)
releaseActionUpdatePodController(service, regrades) ==
  MkAction("UpdatePodController", "Update images in the resource definition file",
           service, <<>>, regrades)
releaseActionCommitAndPush(msg) ==
  MkAction("CommitAndPush", msg, "", <<>>, <<>>)
releaseActionRegradeServices(services, cause) ==
  MkAction("RegradeServices", cause, "", services, <<>>)

\* containerRegrade
MkRegrade(container, current, target) ==
  [container |-> container, current |-> current, target |-> target]

\* platform containers: a name and the image it runs
Containers == [Name : {"c1", "c2"}, Image : Images]

\* the container lists of at most n containers, named c1, c2 by position
ContainerListsUpTo(n) ==
  {cs \in UNION {[1..k -> Containers] : k \in 0..n} :
     \A i \in DOMAIN cs : cs[i].Name = IF i = 1 THEN "c1" ELSE "c2"}

\* what helper.PlatformContainersFor can answer for one service
ContainerLists == ContainerListsUpTo(MaxContainers)

\* what helper.AllReleasableImagesFor can answer for each service
ListedContainerLists == ContainerListsUpTo(MaxListedContainers)

\* registry answer per repository: -1 the query fails, 0 the repository has
\* no image, t > 0 the tag of the newest image
RegistryStates == [Repos -> -1..MaxTag]

ServiceSeqs == UNION {Perms(S) : S \in SUBSET Services}

PlanOk(res) == [err |-> ErrNil, res |-> res]

\* a planner whose deferred function executes the plan whatever it returns
ExecutesPlan_Always(e) == TRUE

\* the deferred function of each planner: execute runs only when the
\* planner returns nil
ExecutesPlan(e) == e = ErrNil
PlanErr(e) == [err |-> e, res |-> <<>>]

(***************************************************************************)
(* Collaborators of the planner (helper.Helper, registry): their answers   *)
(* are inputs.                                                             *)
(***************************************************************************)
\* the platform: the services it reports, in its order, and their containers
Platforms ==
  UNION {{[ids |-> s, containers |-> c] : c \in [ToSet(s) -> ListedContainerLists]} :
           s \in ServiceSeqs}

EmptyPlatform == [ids |-> <<>>, containers |-> <<>>]
NoRegistry == [r \in Repos |-> 0]

\* helper.AllReleasableImagesFor: the containers of the services asked for
AllReleasableImagesFor(platform, asked) ==
  [s \in ToSet(asked) \cap DOMAIN platform.containers |-> platform.containers[s]]

\* inputs of the planners that start from helper.AllServices
AllInputs(regs) ==
  {[fail |-> "AllServices", platform |-> EmptyPlatform, reg |-> NoRegistry]}
  \cup {[fail |-> "AllReleasableImagesFor", platform |-> pf, reg |-> NoRegistry] :
          pf \in Platforms}
  \cup [fail : {"none"}, platform : Platforms, reg : regs]

\* inputs of the planners that start from helper.PlatformContainersFor
OneInputs(regs) ==
  {[fail |-> "PlatformContainersFor", containers |-> <<>>, reg |-> NoRegistry]}
  \cup [fail : {"none"}, containers : ContainerLists, reg : regs]

(***************************************************************************)
(* The per-container loops of the planners                                 *)
(***************************************************************************)
NoRegrade == MkRegrade("", ImageSpecNone, ImageSpecNone)
ItemErr == [kind |-> "err", action |-> NoAction, regrade |-> NoRegrade]
ItemSkip == [kind |-> "skip", action |-> NoAction, regrade |-> NoRegrade]
ItemPrintf(text) ==
  [kind |-> "printf", action |-> releaseActionPrintf(text), regrade |-> NoRegrade]
ItemRegrade(container, current, target) ==
  [kind |-> "regrade", action |-> NoAction,
   regrade |-> MkRegrade(container.Name, current, target)]

\* runs one loop over containers: an error return ends it, a printf is
\* appended to res, a regrade is appended to the regrade list
RECURSIVE ScanItems(_)
ScanItems(items) ==
  IF items = <<>>
  THEN [err |-> FALSE, printfs |-> <<>>, regrades |-> <<>>]
  ELSE LET h == Head(items)
       IN IF h.kind = "err"
          THEN [err |-> TRUE, printfs |-> <<>>, regrades |-> <<>>]
          ELSE LET rest == ScanItems(Tail(items))
               IN [err |-> rest.err,
                   printfs |-> (IF h.kind = "printf" THEN <<h.action>> ELSE <<>>)
                                 \o rest.printfs,
                   regrades |-> (IF h.kind = "regrade" THEN <<h.regrade>> ELSE <<>>)
                                  \o rest.regrades]

\* releaseAllToLatest, body of the loop over containers
AllToLatestItem(container, reg) ==
  LET currentImageID == container.Image
      latest == reg[Repository(currentImageID)]
      latestImageID == [repo |-> Repository(currentImageID), tag |-> latest]
  IN IF latest = -1 THEN ItemErr        \* RegistryGetRepository fails
     ELSE IF latest = 0 THEN ItemErr    \* LatestImage fails: no image
     ELSE IF currentImageID = latestImageID
          THEN ItemPrintf("Service image is already the latest one; skipping.")
          ELSE ItemRegrade(container, currentImageID, latestImageID)

\* releaseAllForImage, body of the loop over containers
AllForImageItem(container, target) ==
  LET candidate == container.Image
  IN IF Repository(candidate) # Repository(target) THEN ItemSkip
     ELSE IF candidate = target
          THEN ItemPrintf("Service image matches the target image exactly. Skipping.")
          ELSE ItemRegrade(container, candidate, target)

\* a loop body that regrades a container already at the newest image
OneToLatestItem_RegradeWhenEqual(container, reg) ==
  LET imageID == container.Image
      latest == reg[Repository(imageID)]
      latestID == [repo |-> Repository(imageID), tag |-> latest]
  IN IF latest = -1 THEN ItemErr
     ELSE IF latest <= 0
          THEN ItemPrintf("The service image had no images available in its repository; very strange!")
     ELSE ItemRegrade(container, imageID, latestID)

\* a loop body that fails on a repository without images, as the loop of
\* releaseAllToLatest does
OneToLatestItem_NoImagesFails(container, reg) ==
  LET imageID == container.Image
      latest == reg[Repository(imageID)]
      latestID == [repo |-> Repository(imageID), tag |-> latest]
  IN IF latest <= 0 THEN ItemErr
     ELSE IF imageID = latestID
          THEN ItemPrintf("The service image is already at latest; skipping.")
          ELSE ItemRegrade(container, imageID, latestID)

\* releaseOneToLatest, body of the loop over containers
OneToLatestItem(container, reg) ==
  LET imageID == container.Image
      latest == reg[Repository(imageID)]
      latestID == [repo |-> Repository(imageID), tag |-> latest]
  IN IF latest = -1 THEN ItemErr        \* RegistryGetRepository fails
     ELSE IF latest <= 0
          THEN ItemPrintf("The service image had no images available in its repository; very strange!")
     ELSE IF imageID = latestID
          THEN ItemPrintf("The service image is already at latest; skipping.")
          ELSE ItemRegrade(container, imageID, latestID)

\* a releaseOne that does not compare the repositories
OneItem_SameRepoUnchecked(container, target) ==
  LET candidate == container.Image
  IN IF candidate = target
     THEN ItemPrintf("Image is already released. Skipping.")
     ELSE ItemRegrade(container, candidate, target)

\* releaseOne, body of the loop over containers
OneItem(container, target) ==
  LET candidate == container.Image
  IN IF Repository(candidate) # Repository(target)
     THEN ItemPrintf("Image is different. Ignoring.")
     ELSE IF candidate = target
          THEN ItemPrintf("Image is already released. Skipping.")
          ELSE ItemRegrade(container, candidate, target)

(***************************************************************************)
(* The six planners.  Each yields the set of outcomes the code can return  *)
(* on the given answers of its collaborators: Go iterates a map in an      *)
(* unspecified order, so one input can give several action lists.          *)
(***************************************************************************)
\* a tail that regrades before it commits and pushes
UpdateTails_RegradeFirst(regradeMap, msg, cause) ==
  {<<releaseActionClone>>
     \o [i \in DOMAIN o2 |-> releaseActionUpdatePodController(o2[i], regradeMap[o2[i]])]
     \o <<releaseActionRegradeServices(o3, cause)>>
     \o <<releaseActionCommitAndPush(msg)>> :
   o2 \in Perms(DOMAIN regradeMap), o3 \in Perms(DOMAIN regradeMap)}

\* the tail of a plan that updates images: clone, one update per service of
\* the regrade map, commit and push, one regrade of all of them
UpdateTails(regradeMap, msg, cause) ==
  {<<releaseActionClone>>
     \o [i \in DOMAIN o2 |-> releaseActionUpdatePodController(o2[i], regradeMap[o2[i]])]
     \o <<releaseActionCommitAndPush(msg)>>
     \o <<releaseActionRegradeServices(o3, cause)>> :
   o2 \in Perms(DOMAIN regradeMap), o3 \in Perms(DOMAIN regradeMap)}

releaseAllToLatest(exclude, in) ==
  LET intro == releaseActionPrintf("I'm going to release all services to their latest images.")
      serviceIDs == in.platform.ids
      containerMap == AllReleasableImagesFor(in.platform, Without(serviceIDs, exclude))
      scan == [s \in DOMAIN containerMap |->
                 ScanItems([i \in DOMAIN containerMap[s] |->
                              AllToLatestItem(containerMap[s][i], in.reg)])]
      regradeMap == [s \in {t \in DOMAIN scan : scan[t].regrades # <<>>} |->
                       scan[s].regrades]
  IN IF in.fail = "AllServices" THEN {PlanErr(ErrPlan)}
     ELSE IF in.fail = "AllReleasableImagesFor" THEN {PlanErr(ErrPlan)}
     ELSE IF \E s \in DOMAIN scan : scan[s].err THEN {PlanErr(ErrPlan)}
     ELSE {PlanOk(<<intro>> \o Flatten([i \in DOMAIN o1 |-> scan[o1[i]].printfs]) \o tail) :
             o1 \in Perms(DOMAIN scan),
             tail \in IF DOMAIN regradeMap = {}
                      THEN {<<releaseActionPrintf("All services are running the latest images. Nothing to do.")>>}
                      ELSE UpdateTails(regradeMap, "Release latest images to all services",
                                       "latest images (to all services)")}

releaseAllForImage(target, exclude, in) ==
  LET intro == releaseActionPrintf("I'm going to release image to all services that would use it.")
      serviceIDs == in.platform.ids
      containerMap == AllReleasableImagesFor(in.platform, Without(serviceIDs, exclude))
      scan == [s \in DOMAIN containerMap |->
                 ScanItems([i \in DOMAIN containerMap[s] |->
                              AllForImageItem(containerMap[s][i], target)])]
      regradeMap == [s \in {t \in DOMAIN scan : scan[t].regrades # <<>>} |->
                       scan[s].regrades]
  IN IF in.fail = "AllServices" THEN {PlanErr(ErrPlan)}
     ELSE IF in.fail = "AllReleasableImagesFor" THEN {PlanErr(ErrPlan)}
     ELSE {PlanOk(<<intro>> \o Flatten([i \in DOMAIN o1 |-> scan[o1[i]].printfs]) \o tail) :
             o1 \in Perms(DOMAIN scan),
             tail \in IF DOMAIN regradeMap = {}
                      THEN {<<releaseActionPrintf("All matching services are already running image. Nothing to do.")>>}
                      ELSE UpdateTails(regradeMap, "Release image to all services",
                                       "image (to all services)")}

releaseOneToLatest(id, exclude, in) ==
  LET intro == releaseActionPrintf("I'm going to release the latest images(s) for service.")
      scan == ScanItems([i \in DOMAIN in.containers |->
                           OneToLatestItem(in.containers[i], in.reg)])
      regradeMap == [s \in {id} |-> scan.regrades]
  IN IF Contains(exclude, id)
     THEN {PlanOk(<<intro, releaseActionPrintf("Specified service is excluded; ignoring.")>>)}
     ELSE IF in.fail = "PlatformContainersFor" THEN {PlanErr(ErrPlan)}
     ELSE IF scan.err THEN {PlanErr(ErrPlan)}
     ELSE IF Len(scan.regrades) <= 0
          THEN {PlanOk(<<intro>> \o scan.printfs \o
                       <<releaseActionPrintf("The service is already running the latest version of all its images. Nothing to do.")>>)}
          ELSE {PlanOk(<<intro>> \o scan.printfs \o tail) :
                  tail \in UpdateTails(regradeMap, "Release latest images to service",
                                       "latest images")}

releaseOne(serviceID, target, exclude, in) ==
  LET intro == releaseActionPrintf("I'm going to release image to service.")
      scan == ScanItems([i \in DOMAIN in.containers |->
                           OneItem(in.containers[i], target)])
      regradeMap == [s \in {serviceID} |-> scan.regrades]
  IN IF Contains(exclude, serviceID)
     THEN {PlanOk(<<intro, releaseActionPrintf("Specified service is excluded; ignoring.")>>)}
     ELSE IF in.fail = "PlatformContainersFor" THEN {PlanErr(ErrPlan)}
     ELSE IF Len(scan.regrades) <= 0
          THEN {PlanOk(<<intro>> \o scan.printfs \o
                       <<releaseActionPrintf("Service doesn't need a regrade. Nothing to do.")>>)}
          ELSE {PlanOk(<<intro>> \o scan.printfs \o tail) :
                  tail \in UpdateTails(regradeMap, "Release image to service", "image")}

releaseOneWithoutUpdate(serviceID, exclude) ==
  IF Contains(exclude, serviceID)
  THEN {PlanOk(<<releaseActionPrintf("Specified service is excluded; ignoring.")>>)}
  ELSE {PlanOk(<<releaseActionPrintf("I'm going to release service using the config from the git repo, without updating it"),
                 releaseActionClone,
                 releaseActionFindPodController(serviceID),
                 releaseActionRegradeServices(<<serviceID>>, "without update")>>)}

releaseAllWithoutUpdate(exclude, in) ==
  LET serviceIDs == Without(in.platform.ids, exclude)
  IN IF in.fail = "AllServices" THEN {PlanErr(ErrPlan)}
     ELSE {PlanOk(<<releaseActionPrintf("I'm going to release all services using the config from the git repo, without updating it."),
                    releaseActionClone>>
                  \o [i \in DOMAIN serviceIDs |-> releaseActionFindPodController(serviceIDs[i])]
                  \o <<releaseActionRegradeServices(serviceIDs, "without update (all services)")>>)}

(***************************************************************************)
(* Release: mode dispatch (the switch of releaser.Release)                 *)
(***************************************************************************)
\* a switch that looks at the image selector before the workload selector
\* and at the exclusion set
releaseType_ImageFirst(j) ==
  IF j.ImageSpec = ImageSpecLatest
  THEN IF j.ServiceSpec = ServiceSpecAll /\ j.Excludes = {}
       THEN "release_all_to_latest" ELSE "release_one_to_latest"
  ELSE IF j.ImageSpec = ImageSpecNone
  THEN IF j.ServiceSpec = ServiceSpecAll
       THEN "release_all_without_update" ELSE "release_one_without_update"
  ELSE IF j.ServiceSpec = ServiceSpecAll
  THEN "release_all_for_image"
  ELSE "release_one"

\* the switch of Release: the case taken, by its releaseType
releaseType(j) ==
  IF j.ServiceSpec = ServiceSpecAll /\ j.ImageSpec = ImageSpecLatest
  THEN "release_all_to_latest"
  ELSE IF j.ServiceSpec = ServiceSpecAll /\ j.ImageSpec = ImageSpecNone
  THEN "release_all_without_update"
  ELSE IF j.ServiceSpec = ServiceSpecAll
  THEN "release_all_for_image"
  ELSE IF j.ImageSpec = ImageSpecLatest
  THEN "release_one_to_latest"
  ELSE IF j.ImageSpec = ImageSpecNone
  THEN "release_one_without_update"
  ELSE "release_one"

\* what the planner called by Release can return for job j, over all answers
\* of the platform and the registry
PlanOutcomes(j) ==
  LET t == releaseType(j)
  IN IF t = "release_all_to_latest"
     THEN UNION {releaseAllToLatest(j.Excludes, in) : in \in AllInputs(RegistryStates)}
     ELSE IF t = "release_all_without_update"
     THEN UNION {releaseAllWithoutUpdate(j.Excludes, in) : in \in AllInputs({NoRegistry})}
     ELSE IF t = "release_all_for_image"
     THEN UNION {releaseAllForImage(j.ImageSpec, j.Excludes, in) :
                   in \in AllInputs({NoRegistry})}
     ELSE IF ParseServiceIDFails(j.ServiceSpec)
     THEN {PlanErr(ErrParse)}
     ELSE IF t = "release_one_to_latest"
     THEN UNION {releaseOneToLatest(j.ServiceSpec, j.Excludes, in) :
                   in \in OneInputs(RegistryStates)}
     ELSE IF t = "release_one_without_update"
     THEN releaseOneWithoutUpdate(j.ServiceSpec, j.Excludes)
     ELSE UNION {releaseOne(j.ServiceSpec, j.ImageSpec, j.Excludes, in) :
                   in \in OneInputs({NoRegistry})}

(***************************************************************************)
(* The release context and the bodies of the actions                       *)
(***************************************************************************)
\* flux.ReleaseContext: RepoPath is set by Clone; PodControllers maps a
\* service to its manifest, here the set of images written into it
NewReleaseContext == [RepoPath |-> FALSE, PodControllers |-> <<>>]

\* one entry of the trace of a call: what it sent to the sink (status, desc,
\* result, error) and what it did to the clone and the cluster (clone, write,
\* commit, regrade)
Ev(k, a, text) == [k |-> k, a |-> a, text |-> text, svcs |-> <<>>]
EvRegrade(a, specs) == [k |-> "regrade", a |-> a, text |-> "", svcs |-> specs]
\* r.history.LogEvent for one service
EvHistory(a, service, text) ==
  [k |-> "history", a |-> a, text |-> text, svcs |-> <<service>>]

SinkKinds == {"status", "desc", "result", "error"}
EffectKinds == {"clone", "write", "commit", "regrade", "history"}

DoIn(valid, files, fault, result) ==
  [valid |-> valid, files |-> files, fault |-> fault, result |-> result]

\* the answers of the file system, the git repo and the platform to one body;
\* the platform's RegradeError has errors for services it was given
DoInputs(a, rc) ==
  IF a.type = "Printf" THEN {DoIn(TRUE, 1, "none", "")}
  ELSE IF a.type = "Clone"
  THEN {DoIn(TRUE, 1, f, "") : f \in {"none", "Clone", "panic"}}
  ELSE IF a.type = "FindPodController"
  THEN {DoIn(FALSE, 1, "none", "")}
       \cup {DoIn(TRUE, n, f, "") : n \in 0..MaxFiles, f \in {"none", "ReadFile"}}
       \cup {DoIn(TRUE, 1, f, "") : f \in {"FilesFor", "panic"}}
  ELSE IF a.type = "UpdatePodController"
  THEN {DoIn(FALSE, 1, "none", "")}
       \cup {DoIn(TRUE, n, "none", "") : n \in 0..MaxFiles}
       \cup {DoIn(TRUE, 1, f, "") :
               f \in {"FilesFor", "ReadFile", "Stat", "UpdatePodController",
                      "WriteFile", "panic"}}
  ELSE IF a.type = "CommitAndPush"
  THEN {DoIn(FALSE, 1, "none", "")}
       \cup {DoIn(TRUE, 1, f, r) : f \in {"none", "CommitAndPush"}, r \in {"", "pushed"}}
       \cup {DoIn(TRUE, 1, "panic", "")}
  ELSE {DoIn(TRUE, 1, f, {}) : f \in {"none", "panic"}}
       \cup {DoIn(TRUE, 1, "RegradeError", failed) :
               failed \in (SUBSET (ToSet(a.services) \cap DOMAIN rc.PodControllers)) \ {{}}}

DoRet(res, e, rc, effects) == [res |-> res, err |-> e, rc |-> rc, effects |-> effects]

DoPrintf(a, rc, in) == DoRet("", ErrNil, rc, <<>>)

DoClone(a, rc, in) ==
  IF in.fault = "panic" THEN DoRet("", Panicked, rc, <<>>)
  ELSE IF in.fault = "Clone" THEN DoRet("", ErrAction, rc, <<>>)
  ELSE DoRet("Clone OK.", ErrNil, [rc EXCEPT !.RepoPath = TRUE], <<Ev("clone", a, "")>>)

SetPodController(rc, service, def) ==
  [rc EXCEPT !.PodControllers =
     [s \in DOMAIN rc.PodControllers \cup {service} |->
        IF s = service THEN def ELSE rc.PodControllers[s]]]

DoFindPodController(a, rc, in) ==
  IF in.fault = "panic" THEN DoRet("", Panicked, rc, <<>>)
  ELSE IF ~in.valid THEN DoRet("", ErrAction, rc, <<>>)
  ELSE IF in.fault = "FilesFor" THEN DoRet("", ErrAction, rc, <<>>)
  ELSE IF in.files <= 0
  THEN DoRet("no resource definition file found; skipping", ErrNil, rc, <<>>)
  ELSE IF in.files > 1 THEN DoRet("", ErrAction, rc, <<>>)
  ELSE IF in.fault = "ReadFile" THEN DoRet("", ErrAction, rc, <<>>)
  ELSE DoRet("Found pod controller OK.", ErrNil,
             SetPodController(rc, a.service, {}), <<>>)

DoUpdatePodController(a, rc, in) ==
  LET def == {a.regrades[i].target : i \in DOMAIN a.regrades}
  IN IF in.fault = "panic" THEN DoRet("", Panicked, rc, <<>>)
     ELSE IF ~in.valid THEN DoRet("", ErrAction, rc, <<>>)
     ELSE IF in.fault = "FilesFor" THEN DoRet("", ErrAction, rc, <<>>)
     ELSE IF in.files <= 0
     THEN DoRet("no resource definition file found; skipping", ErrNil, rc, <<>>)
     ELSE IF in.files > 1 THEN DoRet("", ErrAction, rc, <<>>)
     ELSE IF in.fault \in {"ReadFile", "Stat", "UpdatePodController", "WriteFile"}
     THEN DoRet("", ErrAction, rc, <<>>)
     ELSE DoRet("Update pod controller OK.", ErrNil,
                SetPodController(rc, a.service, def), <<Ev("write", a, "")>>)

DoCommitAndPush(a, rc, in) ==
  IF in.fault = "panic" THEN DoRet("", Panicked, rc, <<>>)
  ELSE IF ~in.valid THEN DoRet("", ErrAction, rc, <<>>)
  ELSE IF in.fault = "CommitAndPush" THEN DoRet(in.result, ErrAction, rc, <<>>)
  ELSE IF in.result = ""
  THEN DoRet("Pushed commit", ErrNil, rc, <<Ev("commit", a, "")>>)
  ELSE DoRet(in.result, ErrNil, rc, <<Ev("commit", a, "")>>)

\* platform.RegradeSpec
RegradeSpec(service, def) == [Service |-> service, NewDefinition |-> def]

RegradeStarting == "Starting regrade"
RegradeDone == "Regrade: done"
RegradeNoPodController ==
  "Regrade: failed: no pod controller in release context; skipping regrade"
RegradeFailed == "Regrade: failed: regrade error"

\* what the body returns after the transaction: transactionErr
RegradeReturn(transactionErr) == IF transactionErr THEN ErrAction ELSE ErrNil

\* a body that submits every listed service
RegradeSubmitted_All(services, rc) == services

\* the listed services with a pod controller in the release context, in
\* the order of the list
RegradeSubmitted(services, rc) ==
  SelectSeq(services, LAMBDA s : s \in DOMAIN rc.PodControllers)

\* in.result: the services the RegradeError of the platform has an error for
DoRegradeServices(a, rc, in) ==
  LET submitted == RegradeSubmitted(a.services, rc)
      specs == [i \in DOMAIN submitted |->
                  RegradeSpec(submitted[i],
                              IF submitted[i] \in DOMAIN rc.PodControllers
                              THEN rc.PodControllers[submitted[i]] ELSE {})]
      starting == [i \in DOMAIN submitted |->
                     EvHistory(a, submitted[i], RegradeStarting)]
      transactionErr == in.fault = "RegradeError"
      result(s) == IF transactionErr /\ s \in in.result THEN RegradeFailed
                   ELSE IF s \notin DOMAIN rc.PodControllers
                   THEN RegradeNoPodController
                   ELSE RegradeDone
      report == [i \in DOMAIN a.services |->
                   EvHistory(a, a.services[i], result(a.services[i]))]
  IN IF in.fault = "panic"
     THEN DoRet("", Panicked, rc, starting \o <<EvRegrade(a, specs)>>)
     ELSE DoRet("", RegradeReturn(transactionErr), rc,
                starting \o <<EvRegrade(a, specs)>> \o report)

\* action.Do(rc)
Do(a, rc, in) ==
  IF a.type = "Printf" THEN DoPrintf(a, rc, in)
  ELSE IF a.type = "Clone" THEN DoClone(a, rc, in)
  ELSE IF a.type = "FindPodController" THEN DoFindPodController(a, rc, in)
  ELSE IF a.type = "UpdatePodController" THEN DoUpdatePodController(a, rc, in)
  ELSE IF a.type = "CommitAndPush" THEN DoCommitAndPush(a, rc, in)
  ELSE DoRegradeServices(a, rc, in)

(***************************************************************************)
(* releaser.execute, one iteration of its loop over the actions            *)
(***************************************************************************)
\* an execute that does not look at the release kind
RunsBody_Always(kind) == TRUE

\* whether execute calls action.Do
RunsBody(kind) == kind = ReleaseKindExecute

\* an execute that logs the error of a body and carries on
LoopContinues_AfterError(e) == e # Panicked

\* whether the loop of execute goes on to the next action after a body
\* returned e
LoopContinues(e) == e = ErrNil

\* an execute that reports the description of an action after its body ran
executeAction_DescLast(kind, a, rc, in) ==
  LET desc == <<Ev("desc", a, "")>>
      r == Do(a, rc, in)
  IN IF ~RunsBody(kind)
     THEN [events |-> desc, rc |-> rc, err |-> ErrNil]
     ELSE IF r.err = Panicked
     THEN [events |-> r.effects, rc |-> r.rc, err |-> Panicked]
     ELSE IF r.err # ErrNil
     THEN [events |-> r.effects \o desc \o <<Ev("error", a, r.err)>>,
           rc |-> r.rc, err |-> r.err]
     ELSE [events |-> r.effects \o desc
                        \o (IF r.res # "" THEN <<Ev("result", a, r.res)>> ELSE <<>>),
           rc |-> r.rc, err |-> ErrNil]

\* one iteration of the loop of execute: the description goes to the sink,
\* then the body runs, then its error or its non-empty result goes there
executeAction(kind, a, rc, in) ==
  LET desc == <<Ev("desc", a, "")>>
      r == Do(a, rc, in)
  IN IF ~RunsBody(kind)
     THEN [events |-> desc, rc |-> rc, err |-> ErrNil]
     ELSE IF r.err = Panicked
     THEN [events |-> desc \o r.effects, rc |-> r.rc, err |-> Panicked]
     ELSE IF r.err # ErrNil
     THEN [events |-> desc \o r.effects \o <<Ev("error", a, r.err)>>,
           rc |-> r.rc, err |-> r.err]
     ELSE [events |-> desc \o r.effects
                        \o (IF r.res # "" THEN <<Ev("result", a, r.res)>> ELSE <<>>),
           rc |-> r.rc, err |-> ErrNil]


(***************************************************************************)
(* The result map of a release (update.Result).  The Release that returns  *)
(* it is exercised by Test_FilterLogic and Test_ImageStatus; the pipeline  *)
(* below follows the filtering pipeline of the specification, in the order *)
(* the expected results of those tests fix.                                *)
(***************************************************************************)
ReleaseStatusSuccess == "success"
ReleaseStatusIgnored == "ignored"
ReleaseStatusSkipped == "skipped"
ReleaseStatusFailed == "failed"

Statuses ==
  {ReleaseStatusSuccess, ReleaseStatusIgnored, ReleaseStatusSkipped, ReleaseStatusFailed}

ErrorTags ==
  {"Excluded", "NotIncluded", "Locked", "NotInCluster", "NotInRepo",
   "DifferentImage", "DoesNotUseImage", "ImageUpToDate"}

\* update.ControllerResult
ControllerResult(status, tag, updates) ==
  [Status |-> status, Error |-> tag, PerContainer |-> updates]

\* the requests and the worlds the pipeline is run on: the workload
\* selectors, the image selector, the exclusions; the workloads with a
\* manifest in the repository, those of them that are locked, those running
\* in the cluster with their containers, the newest tag per repository
FilterContainerLists ==
  {<<>>,
   <<[Name |-> "c1", Image |-> [repo |-> "r1", tag |-> 1]]>>,
   <<[Name |-> "c1", Image |-> [repo |-> "r1", tag |-> 1]],
     [Name |-> "c2", Image |-> [repo |-> "r2", tag |-> 1]]>>,
   <<[Name |-> "c1", Image |-> [repo |-> "r1", tag |-> 1]],
     [Name |-> "c2", Image |-> [repo |-> "r1", tag |-> MaxTag]]>>}

FilterContainerMaps ==
  {[s \in Services |->
      IF s = "s1" THEN cs
      ELSE <<[Name |-> "c1", Image |-> [repo |-> "r2", tag |-> 1]]>>] :
     cs \in FilterContainerLists}

FilterSelections ==
  {[image |-> ImageSpecLatest, reg |-> r] : r \in [Repos -> 0..MaxTag]}
  \cup {[image |-> i, reg |-> NoRegistry] : i \in Images}

FilterInputs ==
  {[specs |-> sp, image |-> sel.image, reg |-> sel.reg, excludes |-> ex,
    repo |-> rp, locked |-> lk, running |-> rn, containers |-> cm] :
     sp \in (SUBSET (Services \cup {ServiceSpecAll})) \ {{}},
     sel \in FilterSelections,
     ex \in SUBSET Services,
     rp \in SUBSET Services,
     lk \in SUBSET Services,
     rn \in SUBSET Services,
     cm \in FilterContainerMaps}

NoFilterInput ==
  [specs |-> {ServiceSpecAll}, image |-> ImageSpecLatest, reg |-> NoRegistry,
   excludes |-> {}, repo |-> {}, locked |-> {}, running |-> {},
   containers |-> [s \in Services |-> <<>>]]

\* the workloads the request selects by name: none when ALL is among the
\* selectors, since ALL wins
SelectedIds(in) == IF ServiceSpecAll \in in.specs THEN {} ELSE in.specs

\* an include filter that ALL does not switch off
IsIncluded_NamedOnly(in, w) == w \in in.specs

\* the include filter: ALL among the selectors switches it off
IsIncluded(in, w) == ServiceSpecAll \in in.specs \/ w \in SelectedIds(in)

\* the image the release would put into a container: the newest image of its
\* repository for LATEST (tag 0: the registry has none), the given image if
\* it is of the container's repository
TargetFor(in, c) ==
  IF in.image = ImageSpecLatest
  THEN [repo |-> Repository(c.Image), tag |-> in.reg[Repository(c.Image)]]
  ELSE IF Repository(c.Image) = Repository(in.image)
  THEN in.image
  ELSE [repo |-> Repository(c.Image), tag |-> 0]

\* the per-container updates of a workload
ContainerUpdates(in, w) ==
  LET cs == in.containers[w]
      todo == SelectSeq(cs, LAMBDA c : TargetFor(in, c).tag # 0
                                         /\ TargetFor(in, c) # c.Image)
  IN [i \in DOMAIN todo |->
        MkRegrade(todo[i].Name, todo[i].Image, TargetFor(in, todo[i]))]

\* a specific image filter that lets every workload through
UsesImageRepo_Always(in, w) == TRUE

\* whether a container of the workload has an image of the repository of the
\* specific image
UsesImageRepo(in, w) ==
  \E i \in DOMAIN in.containers[w] :
    Repository(in.containers[w][i].Image) = Repository(in.image)

\* prefilters that take a named workload without manifest for excluded from
\* the release
Prefilter_NoManifestExcluded(in, w) ==
  IF ~IsIncluded(in, w)
  THEN ControllerResult(ReleaseStatusIgnored, "NotIncluded", <<>>)
  ELSE IF w \in in.excludes \/ w \notin in.repo
  THEN ControllerResult(ReleaseStatusIgnored, "Excluded", <<>>)
  ELSE ControllerResult("", "", <<>>)

\* the filters applied before the cluster is asked
Prefilter(in, w) ==
  IF ~IsIncluded(in, w)
  THEN ControllerResult(ReleaseStatusIgnored, "NotIncluded", <<>>)
  ELSE IF w \in in.excludes
  THEN ControllerResult(ReleaseStatusIgnored, "Excluded", <<>>)
  ELSE ControllerResult("", "", <<>>)

\* the same filters with the lock looked at first
Postfilter_LockedFirst(in, w) ==
  IF w \in in.locked
  THEN ControllerResult(ReleaseStatusSkipped, "Locked", <<>>)
  ELSE IF in.image # ImageSpecLatest /\ ~UsesImageRepo(in, w)
  THEN ControllerResult(ReleaseStatusIgnored, "DifferentImage", <<>>)
  ELSE ControllerResult("", "", <<>>)

\* the filters applied to the workloads found in the cluster
Postfilter(in, w) ==
  IF in.image # ImageSpecLatest /\ ~UsesImageRepo(in, w)
  THEN ControllerResult(ReleaseStatusIgnored, "DifferentImage", <<>>)
  ELSE IF w \in in.locked
  THEN ControllerResult(ReleaseStatusSkipped, "Locked", <<>>)
  ELSE ControllerResult("", "", <<>>)

\* the image stage: the updates, or why there is none
ImageStage(in, w) ==
  LET cs == in.containers[w]
      upToDate == \E i \in DOMAIN cs : TargetFor(in, cs[i]) = cs[i].Image
  IN IF ContainerUpdates(in, w) # <<>>
     THEN ControllerResult(ReleaseStatusSuccess, "", ContainerUpdates(in, w))
     ELSE IF upToDate
     THEN ControllerResult(IF in.image = ImageSpecLatest
                           THEN ReleaseStatusSkipped ELSE ReleaseStatusIgnored,
                           "ImageUpToDate", <<>>)
     ELSE ControllerResult(ReleaseStatusIgnored, "DoesNotUseImage", <<>>)

\* a cluster taken to run every workload of the repository
InCluster_Always(in, w) == TRUE

\* whether the cluster runs the workload
InCluster(in, w) == w \in in.running

\* a result map without the entries of the selected workloads that have no
\* manifest in the repository
FilterRelease_NoNotInRepo(in) ==
  [w \in in.repo |->
     IF Prefilter(in, w).Error # "" THEN Prefilter(in, w)
     ELSE IF ~InCluster(in, w)
     THEN ControllerResult(ReleaseStatusSkipped, "NotInCluster", <<>>)
     ELSE IF Postfilter(in, w).Error # "" THEN Postfilter(in, w)
     ELSE ImageStage(in, w)]

\* the result map of Release: one entry per workload with a manifest in the
\* repository, then one per selected workload without
FilterRelease(in) ==
  [w \in in.repo \cup SelectedIds(in) |->
     IF Prefilter(in, w).Error # "" THEN Prefilter(in, w)
     ELSE IF w \notin in.repo
     THEN ControllerResult(ReleaseStatusSkipped, "NotInRepo", <<>>)
     ELSE IF ~InCluster(in, w)
     THEN ControllerResult(ReleaseStatusSkipped, "NotInCluster", <<>>)
     ELSE IF Postfilter(in, w).Error # "" THEN Postfilter(in, w)
     ELSE ImageStage(in, w)]

\* what helper.PlatformContainersFor and the registry answer in the world of
\* the run: the containers of a workload the cluster runs, an error for one
\* it does not run
PlannerInputs(in, w) ==
  IF InCluster(in, w)
  THEN [fail |-> "none", containers |-> in.containers[w], reg |-> in.reg]
  ELSE [fail |-> "PlatformContainersFor", containers |-> <<>>, reg |-> NoRegistry]

\* the plans of Releaser.Release for a request naming one workload: the
\* switch of Release on the image selector
PlanOne(in) ==
  LET w == CHOOSE s \in Services : in.specs = {s}
  IN IF in.image = ImageSpecLatest
     THEN releaseOneToLatest(w, in.excludes, PlannerInputs(in, w))
     ELSE releaseOne(w, in.image, in.excludes, PlannerInputs(in, w))

(***************************************************************************)
(* The sync engine (Kubectl of src/unnamed/part_000)                       *)
(***************************************************************************)
\* the operations with the applies first
cmds_ApplyFirst == <<"apply", "delete">>

cmds == <<"delete", "apply">>

\* manifest identifiers; the callers of stage use each at most once
SyncIds == 1..MaxStaged

\* the namespace a manifest declares; "" when it declares none
Namespaces == {"", "default", "other"}

\* obj: an identifier and the apiObject (here its declared namespace; the
\* bytes of the manifest are told apart by the identifier)
MkObj(id, ns) == [id |-> id, ns |-> ns]

\* apiObject.hasDefaultNamespace
hasDefaultNamespace(o) == o.ns \in {"", "default"}

\* changeSet.objs: a nil map reads as empty buckets
NoObjs == [c \in ToSet(cmds) |-> <<>>]

\* changeSet.stage
changeSetStage(cs, cmd, id, ns) == [cs EXCEPT ![cmd] = Append(@, MkObj(id, ns))]

\* a clear that resets the bucket of apply only
changeSetClear_ApplyOnly(cs) == [cs EXCEPT !["apply"] = <<>>]

\* changeSet.clear
changeSetClear(cs) == [c \in DOMAIN cs |-> <<>>]

\* newExecuteSet: the arguments of the tool, the stream rw and the objects
newExecuteSet(args) == [cmd |-> args, rw |-> <<>>, objs |-> <<>>]

\* executeSet.stage: the object is kept and its bytes are written, after a
\* "---" line, to the stream
executeSetStage(set, o) ==
  [set EXCEPT !.objs = Append(@, o), !.rw = Append(@, o)]

RECURSIVE StageAll(_, _)
StageAll(set, os) ==
  IF os = <<>> THEN set ELSE StageAll(executeSetStage(set, Head(os)), Tail(os))

\* one run of the tool (doCommand): its arguments, what it reads on standard
\* input (the manifests of the stream, in order) and whether it succeeded
Invocation(args, stdin, ok) == [args |-> args, stdin |-> stdin, ok |-> ok]

\* the fallback loop of exec: one run per object of the set, in order, with
\* only that object on standard input; F is the set of positions whose run
\* fails
IndividualRuns(set, F) ==
  [i \in DOMAIN set.objs |-> Invocation(set.cmd, <<set.objs[i]>>, i \notin F)]

\* a fallback loop that records every object of a set whose bulk run failed
FailedIds_WholeSet(set, F) == {set.objs[i].id : i \in DOMAIN set.objs}

\* errs[obj.id] = err: the identifiers the fallback loop records, those of
\* the objects whose own run failed
FailedIds(set, F) == {set.objs[i].id : i \in F}

\* an exec that runs the fallback loop whether or not the bulk run failed
exec_RetryAlways(set, errs) ==
  IF Len(set.objs) = 0
  THEN {[log |-> <<>>, errs |-> errs]}
  ELSE {[log |-> <<Invocation(set.cmd, set.rw, ok)>> \o IndividualRuns(set, F),
         errs |-> errs \cup {set.objs[i].id : i \in F}] :
          ok \in BOOLEAN, F \in SUBSET DOMAIN set.objs}

\* Kubectl.exec: what it can do to the log of tool runs and to the error
\* map, over all outcomes of the tool
exec(set, errs) ==
  IF Len(set.objs) = 0
  THEN {[log |-> <<>>, errs |-> errs]}
  ELSE {[log |-> <<Invocation(set.cmd, set.rw, TRUE)>>, errs |-> errs]}
       \cup {[log |-> <<Invocation(set.cmd, set.rw, FALSE)>> \o IndividualRuns(set, F),
              errs |-> errs \cup FailedIds(set, F)] :
               F \in SUBSET DOMAIN set.objs}

\* an execute that stages every object in the default set
ExecuteSets_AllDefault(cs, cmd) ==
  <<StageAll(newExecuteSet(<<cmd, "--namespace", "default">>), cs[cmd]),
    newExecuteSet(<<cmd>>)>>

\* the two sets execute builds for one command, in the order it runs them
ExecuteSets(cs, cmd) ==
  LET defaultSet == StageAll(newExecuteSet(<<cmd, "--namespace", "default">>),
                             SelectSeq(cs[cmd], hasDefaultNamespace))
      otherSet == StageAll(newExecuteSet(<<cmd>>),
                           SelectSeq(cs[cmd], LAMBDA o : ~hasDefaultNamespace(o)))
  IN <<defaultSet, otherSet>>

\* runs exec on the sets one after the other
RECURSIVE ExecAll(_, _)
ExecAll(sets, acc) ==
  IF sets = <<>> THEN {acc}
  ELSE UNION {ExecAll(Tail(sets), [log |-> acc.log \o r.log, errs |-> r.errs]) :
                r \in exec(Head(sets), acc.errs)}

\* Kubectl.execute, up to the deferred clear: for each command, in the order
\* of cmds, the default set and then the other set
execute(cs, errs) ==
  ExecAll(Flatten([i \in DOMAIN cmds |-> ExecuteSets(cs, cmds[i])]),
          [log |-> <<>>, errs |-> errs])

(***************************************************************************)
(* The sync engine of src/cluster/kubernetes/release.go: execute with the  *)
(* executeSet declared inline                                              *)
(***************************************************************************)
\* executeSet{rw: &bytes.Buffer{}, cmd: ...}: its embedded changeSet has a
\* nil map, which reads as an empty bucket
inlineExecuteSet(args) == [cmd |-> args, rw |-> <<>>, objs |-> <<>>]

\* set := defaultSet; set.stage(...); Fprintln(set.rw, ...): set is a copy
\* of the struct, so the map stage makes is the copy's, while rw is the
\* buffer both share: the set keeps its empty bucket and gets the bytes
inlineStage(set, o) ==
  LET copy == [set EXCEPT !.objs = Append(@, o)]
  IN [set EXCEPT !.rw = Append(copy.rw, o)]

RECURSIVE inlineStageAll(_, _)
inlineStageAll(set, os) ==
  IF os = <<>> THEN set ELSE inlineStageAll(inlineStage(set, Head(os)), Tail(os))

\* the bulk run of a set, made whatever the set holds, and on its failure
\* one run per object of the set's bucket
inlineExec(set, errs) ==
  {[log |-> <<Invocation(set.cmd, set.rw, TRUE)>>, errs |-> errs]}
  \cup {[log |-> <<Invocation(set.cmd, set.rw, FALSE)>> \o IndividualRuns(set, F),
         errs |-> errs \cup FailedIds(set, F)] :
          F \in SUBSET DOMAIN set.objs}

inlineExecuteSets(cs, cmd) ==
  LET defaultSet == inlineStageAll(inlineExecuteSet(<<cmd, "--namespace", "default">>),
                                   SelectSeq(cs[cmd], hasDefaultNamespace))
      otherSet == inlineStageAll(inlineExecuteSet(<<cmd>>),
                                 SelectSeq(cs[cmd], LAMBDA o : ~hasDefaultNamespace(o)))
  IN <<defaultSet, otherSet>>

RECURSIVE inlineExecAll(_, _)
inlineExecAll(sets, acc) ==
  IF sets = <<>> THEN {acc}
  ELSE UNION {inlineExecAll(Tail(sets), [log |-> acc.log \o r.log, errs |-> r.errs]) :
                r \in inlineExec(Head(sets), acc.errs)}

\* Kubectl.execute of release.go, up to the deferred clear
inlineExecute(cs, errs) ==
  inlineExecAll(Flatten([i \in DOMAIN cmds |-> inlineExecuteSets(cs, cmds[i])]),
                [log |-> <<>>, errs |-> errs])

(***************************************************************************)
(* State of the releaser and of its callers                                *)
(***************************************************************************)
VARIABLES
  semaphore,   \* number of elements in the channel r.semaphore
  pc,          \* where each caller of Release is
  job,         \* the job of the call in flight
  ret,         \* what the call of Release that ended last returned
  actions,     \* res: the action list the planner built
  idx,         \* the loop index of execute
  rc,          \* the release context of execute
  trace,       \* sink updates and effects of the call, in order
  err,         \* the error the call is about to return
  cleaned,     \* number of rc.Clean calls of the call
  relType,     \* releaseType: the local of Release that names the mode
  objs,        \* Kubectl.changeSet.objs: the staged objects per command
  lastSet,     \* the change-set the last execute started from
  syncLog,     \* the runs of the tool made by the last execute, in order
  errs,        \* the caller's error map after the last execute (its keys)
  syncImpl,    \* which execute ran last: of part_000 or of release.go
  fIn,         \* the request and the world of a run of the filter pipeline
  fOut,        \* the result map it returned
  fDone,       \* whether it has returned
  burst,       \* Warmer.Burst
  wpc,         \* where the warmer task is in Loop and warm
  wLeft,       \* the images of the pass that are still to be warmed
  wImg,        \* id: the image of the warm call in progress, or of the last
  wClient,     \* the registry client of that call: none, open, cancelled
  wCancels,    \* how often that call has called client.Cancel
  wFail,       \* the step that made that call return early, if any
  wSeen,       \* what the lookup of each tag's manifest entry came to
  wFetched,    \* the tags whose manifest that call asked the registry for
  wWrote,      \* the tags whose manifest that call wrote to the cache
  stopAt,      \* the pass that was running when stop was raised, or 0
  fieldsNil,   \* whether Logger, ClientFactory, Writer or Reader is nil
  wTags,       \* tags: the tags the registry returned to that call
  wStored,     \* whether that call fetched and stored the tag list
  toUpdate,    \* the tags of toUpdate for which no fetch was spawned yet
  fetchers,    \* number of tokens in the channel fetchers
  awaitFetchers, \* the counter of the wait group awaitFetchers
  wTasks,      \* the fetch goroutines that have not ended
  cache,       \* the manifest entries of the cache, by their expiration
  wLogged,     \* the tags for which that call logged an error
  wDropped,    \* the tags whose fetch failed without a log line
  stop,        \* whether the stop channel is ready
  tick,        \* whether a tick waits in the channel newImages
  ticks,       \* number of ticks the loop has received
  now,         \* the wall clock: whole minutes since Loop was called
  passes,      \* number of warm passes started
  wgDone       \* whether Loop has called wg.Done

relVars == <<semaphore, pc, job, ret, actions, idx, rc, trace, err, cleaned,
             relType>>
syncVars == <<objs, lastSet, syncLog, errs, syncImpl>>
filterVars == <<fIn, fOut, fDone>>
warmVars == <<burst, fieldsNil, wpc, wLeft, wImg, wClient, wCancels, wFail, wTags, wStored,
              wSeen, toUpdate, fetchers, awaitFetchers, wTasks, wFetched,
              wWrote, cache, wLogged, wDropped, stop, stopAt, tick, ticks,
              now, passes, wgDone>>

vars == <<relVars, syncVars, filterVars, warmVars>>

InGate == {"acquired", "exec", "unwind"}

RelInit ==
  /\ semaphore = 0
  /\ pc = [p \in Callers |-> "idle"]
  /\ job = [p \in Callers |-> NoJob]
  /\ ret = "none"
  /\ actions = [p \in Callers |-> <<>>]
  /\ idx = [p \in Callers |-> 0]
  /\ rc = [p \in Callers |-> NewReleaseContext]
  /\ trace = [p \in Callers |-> <<>>]
  /\ err = [p \in Callers |-> ErrNil]
  /\ cleaned = [p \in Callers |-> 0]
  /\ relType = [p \in Callers |-> ""]

\* a channel with room for one more element than maxSimultaneousReleases
CanAcquire_Capacity2(sem) == sem < maxSimultaneousReleases + 1

\* select { case r.semaphore <- struct{}{}: ... }: the send can proceed
CanAcquire(sem) == sem < maxSimultaneousReleases

\* a receive that is not deferred and so is skipped by a panic
SemaphoreAfterReturn_NotDeferred(sem, e) == IF e = Panicked THEN sem ELSE sem - 1

\* the deferred <-r.semaphore of a call that returns e
SemaphoreAfterReturn(sem, e) == sem - 1

\* a deferred receive registered before the select
SemaphoreAfterReject_Frees(sem) == sem - 1

\* the semaphore after the default branch of the select
SemaphoreAfterReject(sem) == sem

\* Release is called by an idle caller and gets the slot
Acquire(p, j) ==
  /\ pc[p] = "idle"
  /\ CanAcquire(semaphore)
  /\ semaphore' = semaphore + 1
  /\ pc' = [pc EXCEPT ![p] = "acquired"]
  /\ job' = [job EXCEPT ![p] = j]
  /\ UNCHANGED <<ret, actions, idx, rc, trace, err, cleaned, relType>>

\* Release is called while the channel is full: the default branch, which
\* is taken before anything of the job is looked at
Reject(p) ==
  /\ pc[p] = "idle"
  /\ ~CanAcquire(semaphore)
  /\ semaphore' = SemaphoreAfterReject(semaphore)
  /\ ret' = ErrInProgress
  /\ UNCHANGED <<pc, job, actions, idx, rc, trace, err, cleaned, relType>>

\* updateJob("Calculating release actions.") and the planner of the mode
PlanStep(p) ==
  /\ pc[p] = "acquired"
  /\ \E out \in PlanOutcomes(job[p]) :
       /\ trace' = [trace EXCEPT ![p] =
                      <<Ev("status", NoAction, "Calculating release actions.")>>]
       /\ IF ExecutesPlan(out.err)
          THEN /\ pc' = [pc EXCEPT ![p] = "exec"]
               /\ actions' = [actions EXCEPT ![p] = out.res]
               /\ idx' = [idx EXCEPT ![p] = 1]
               /\ rc' = [rc EXCEPT ![p] = NewReleaseContext]
               /\ err' = [err EXCEPT ![p] = out.err]
          ELSE /\ pc' = [pc EXCEPT ![p] = "unwind"]
               /\ err' = [err EXCEPT ![p] = out.err]
               /\ UNCHANGED <<actions, idx, rc>>
  /\ relType' = [relType EXCEPT ![p] = releaseType(job[p])]
  /\ UNCHANGED <<semaphore, job, ret, cleaned>>

\* one iteration of the loop of execute; an error or a panic leaves execute
\* through the deferred rc.Clean
ExecStep(p) ==
  /\ pc[p] = "exec"
  /\ idx[p] <= Len(actions[p])
  /\ \E in \in DoInputs(actions[p][idx[p]], rc[p]) :
       LET st == executeAction(job[p].Kind, actions[p][idx[p]], rc[p], in)
       IN /\ trace' = [trace EXCEPT ![p] = @ \o st.events]
          /\ rc' = [rc EXCEPT ![p] = st.rc]
          /\ IF LoopContinues(st.err)
             THEN /\ idx' = [idx EXCEPT ![p] = @ + 1]
                  /\ UNCHANGED <<pc, err, cleaned>>
             ELSE /\ pc' = [pc EXCEPT ![p] = "unwind"]
                  /\ err' = [err EXCEPT ![p] = st.err]
                  /\ cleaned' = [cleaned EXCEPT ![p] = @ + 1]
                  /\ UNCHANGED idx
  /\ UNCHANGED <<semaphore, job, ret, actions, relType>>

\* the loop of execute is over: return nil through the deferred rc.Clean
ExecDone(p) ==
  /\ pc[p] = "exec"
  /\ idx[p] > Len(actions[p])
  /\ pc' = [pc EXCEPT ![p] = "unwind"]
  /\ err' = [err EXCEPT ![p] = ErrNil]
  /\ cleaned' = [cleaned EXCEPT ![p] = @ + 1]
  /\ UNCHANGED <<semaphore, job, ret, actions, idx, rc, trace, relType>>

\* Release returns (or the panic leaves it): the deferred <-r.semaphore runs
\* and the locals of the call are gone
Return(p) ==
  /\ pc[p] = "unwind"
  /\ semaphore' = SemaphoreAfterReturn(semaphore, err[p])
  /\ pc' = [pc EXCEPT ![p] = "idle"]
  /\ ret' = err[p]
  /\ job' = [job EXCEPT ![p] = NoJob]
  /\ actions' = [actions EXCEPT ![p] = <<>>]
  /\ idx' = [idx EXCEPT ![p] = 0]
  /\ rc' = [rc EXCEPT ![p] = NewReleaseContext]
  /\ trace' = [trace EXCEPT ![p] = <<>>]
  /\ err' = [err EXCEPT ![p] = ErrNil]
  /\ cleaned' = [cleaned EXCEPT ![p] = 0]
  /\ relType' = [relType EXCEPT ![p] = ""]

(***************************************************************************)
(* The sync engine: staging and execute                                    *)
(***************************************************************************)
SyncInit ==
  /\ objs = NoObjs
  /\ lastSet = NoObjs
  /\ syncLog = <<>>
  /\ errs = {}
  /\ syncImpl = ""

StagedIds(cs) == UNION {{cs[c][i].id : i \in DOMAIN cs[c]} : c \in DOMAIN cs}

\* Kubectl.stage(cmd, id, o), by a caller that starts from an empty error map
\* and names each manifest once
Stage(cmd, id, ns) ==
  /\ id \notin StagedIds(objs)
  /\ objs' = changeSetStage(objs, cmd, id, ns)
  /\ lastSet' = NoObjs
  /\ syncLog' = <<>>
  /\ errs' = {}
  /\ syncImpl' = ""

\* Kubectl.execute(logger, errs) with an empty error map
Execute ==
  \E out \in execute(objs, {}) :
    /\ objs' = changeSetClear(objs)
    /\ lastSet' = objs
    /\ syncLog' = out.log
    /\ errs' = out.errs
    /\ syncImpl' = "part_000"

\* Kubectl.execute(logger, errs) of release.go with an empty error map
ExecuteInline ==
  \E out \in inlineExecute(objs, {}) :
    /\ objs' = changeSetClear(objs)
    /\ lastSet' = objs
    /\ syncLog' = out.log
    /\ errs' = out.errs
    /\ syncImpl' = "release.go"

\* no run of the filter pipeline
FilterIdle ==
  /\ fIn = NoFilterInput
  /\ fOut = <<>>
  /\ fDone = FALSE

(***************************************************************************)
(* The registry cache warmer (Warmer.Loop and Warmer.warm)                 *)
(***************************************************************************)
\* the images in use and the tags a registry can return for one
WarmImages == {"a", "b"}
WarmTags == 1..MaxWarmTags
NoImage == "none"

\* refreshWhenExpiryWithin, in minutes
refreshWhenExpiryWithin == 5

\* askForNewImagesInterval, in minutes: the period of the ticker
askForNewImagesInterval == 1

\* a manifest entry of the cache: not there, or there with the minute at
\* which it expires
NoEntry == [cached |-> FALSE, exp |-> 0]
CacheEntry(exp) == [cached |-> TRUE, exp |-> exp]

\* the entries the cache can hold when Loop is called: none, one that
\* expires at the refresh horizon, one that expires a minute later
CacheEntries ==
  {NoEntry} \cup {CacheEntry(m) :
                    m \in refreshWhenExpiryWithin..(refreshWhenExpiryWithin + 1)}

\* the entry Writer.SetKey leaves when it is called at a minute: one that
\* expires after the horizon
FreshEntry(at) == CacheEntry(at + refreshWhenExpiryWithin + 1)

\* what the loop over the tags makes of a manifest entry: missing,
\* expiring, or fresh (skipped)
EntryStates == {"missing", "expiring", "fresh"}

\* a switch that refreshes only the entries that expire before the horizon
EntryState_HorizonExcluded(entry, at) ==
  IF ~entry.cached THEN "missing"
  ELSE IF entry.exp - at >= refreshWhenExpiryWithin THEN "fresh"
  ELSE "expiring"

\* the switch on the answer of GetExpiration: ErrNotCached is missing, an
\* expiry with time.Until(expiry) > refreshWhenExpiryWithin is skipped, any
\* other is expiring
EntryState(entry, at) ==
  IF ~entry.cached THEN "missing"
  ELSE IF entry.exp - at > refreshWhenExpiryWithin THEN "fresh"
  ELSE "expiring"

\* the outcomes of Reader.GetExpiration (or of NewManifestKey before it) for
\* an entry: the state of the entry, or an error
GetExpirationOutcomes(entry, at) == {EntryState(entry, at), "err"}

\* the tags of a set in the order of the tag list
RECURSIVE TagSeq(_)
TagSeq(S) ==
  IF S = {} THEN <<>>
  ELSE LET m == CHOOSE x \in S : \A y \in S : x <= y
       IN <<m>> \o TagSeq(S \ {m})

\* toUpdate := append(missing, expiring...), from what the lookups returned
ToUpdate(tags, seen) ==
  SelectSeq(TagSeq(tags), LAMBDA t : seen[t] = "missing")
  \o SelectSeq(TagSeq(tags), LAMBDA t : seen[t] = "expiring")

\* a send on fetchers that does not wait for a free slot
CanSend_Unbounded(n, cap) == TRUE

\* fetchers <- struct{}{}: the send goes through when the channel
\* make(chan struct{}, w.Burst) has a free slot
CanSend(n, cap) == n < cap

\* a wait that does not wait
WaitReturns_AtOnce(n) == TRUE

\* awaitFetchers.Wait() returns when the counter is zero
WaitReturns(n) == n = 0

\* a fetch that leaves the cache as it is
EntryAfterFetch_NotWritten(entry, outcome, at) == entry

\* the entry of a tag after its fetch: Writer.SetKey stores the manifest,
\* with the expiry of the cache, when the registry returned it
EntryAfterFetch(entry, outcome, at) ==
  IF outcome = "ok" THEN FreshEntry(at) ELSE entry

\* the fetch goroutines there can be
FetchTasks == [img : WarmImages, tag : WarmTags, st : {"fetching", "releasing"}]

\* no lookup made
NotSeen == [t \in WarmTags |-> "none"]

\* the warmer before Loop is called
WarmIdle ==
  /\ burst = 1
  /\ fieldsNil = FALSE
  /\ wpc = "entry"
  /\ wLeft = {}
  /\ wImg = NoImage
  /\ wClient = "none"
  /\ wCancels = 0
  /\ wFail = "none"
  /\ wTags = {}
  /\ wStored = FALSE
  /\ wSeen = NotSeen
  /\ toUpdate = <<>>
  /\ fetchers = 0
  /\ awaitFetchers = 0
  /\ wTasks = {}
  /\ wFetched = {}
  /\ wWrote = {}
  /\ cache = [i \in WarmImages |-> [t \in WarmTags |-> NoEntry]]
  /\ wLogged = {}
  /\ wDropped = {}
  /\ stop = FALSE
  /\ stopAt = 0
  /\ tick = FALSE
  /\ ticks = 0
  /\ now = 0
  /\ passes = 0
  /\ wgDone = FALSE

\* a warmer with any Burst, with or without its four interface fields, and
\* a cache in any state for the image "a"
WarmInit ==
  /\ RelInit /\ SyncInit /\ FilterIdle
  /\ burst \in 0..MaxBurst
  /\ fieldsNil \in BOOLEAN
  /\ wpc = "entry"
  /\ wLeft = {}
  /\ wImg = NoImage
  /\ wClient = "none"
  /\ wCancels = 0
  /\ wFail = "none"
  /\ wTags = {}
  /\ wStored = FALSE
  /\ wSeen = NotSeen
  /\ toUpdate = <<>>
  /\ fetchers = 0
  /\ awaitFetchers = 0
  /\ wTasks = {}
  /\ wFetched = {}
  /\ wWrote = {}
  /\ cache \in {c \in [WarmImages -> [WarmTags -> CacheEntries]] :
                  \A t \in WarmTags : c["b"][t] = NoEntry}
  /\ wLogged = {}
  /\ wDropped = {}
  /\ stop = FALSE
  /\ stopAt = 0
  /\ tick = FALSE
  /\ ticks = 0
  /\ now = 0
  /\ passes = 0
  /\ wgDone = FALSE

loopVars == <<stop, stopAt, tick, ticks, now, passes, wgDone>>
callVars == <<wImg, wClient, wCancels, wFail, wTags, wStored, wSeen, toUpdate,
              fetchers, awaitFetchers, wTasks, wFetched, wWrote, cache,
              wLogged, wDropped>>

\* Loop with a nil Logger, ClientFactory, Writer or Reader: it panics before
\* the first pass, and the deferred wg.Done() runs
LoopPanic ==
  /\ wpc = "entry"
  /\ fieldsNil
  /\ wpc' = "panicked"
  /\ wgDone' = TRUE
  /\ UNCHANGED <<burst, fieldsNil, wLeft, callVars, stop, stopAt, tick, ticks,
                 now, passes>>

\* Loop, past its check of the fields, starts the first pass over
\* imagesToFetchFunc()
LoopEntry ==
  /\ wpc = "entry"
  /\ ~fieldsNil
  /\ \E imgs \in SUBSET WarmImages : wLeft' = imgs
  /\ wpc' = "pass"
  /\ passes' = passes + 1
  /\ UNCHANGED <<burst, fieldsNil, callVars, stop, stopAt, tick, ticks, now,
                 wgDone>>

\* warm returns after the client was made: the deferred client.Cancel()
\* runs and Loop goes on with the images left
WarmExit ==
  /\ wClient' = "cancelled"
  /\ wCancels' = wCancels + 1
  /\ wLeft' = wLeft \ {wImg}
  /\ wpc' = "pass"

\* warm(id, creds), its first statement: ClientFactory.ClientFor; on an
\* error it logs and returns
WarmStart(id) ==
  /\ wpc = "pass"
  /\ id \in wLeft
  /\ wImg' = id
  /\ wCancels' = 0
  /\ wTags' = {}
  /\ wStored' = FALSE
  /\ wSeen' = NotSeen
  /\ toUpdate' = <<>>
  /\ wTasks' = {}
  /\ fetchers' = 0
  /\ awaitFetchers' = 0
  /\ wFetched' = {}
  /\ wWrote' = {}
  /\ wLogged' = {}
  /\ wDropped' = {}
  /\ \/ /\ wClient' = "none"
        /\ wFail' = "ClientFor"
        /\ wLeft' = wLeft \ {id}
        /\ wpc' = "pass"
     \/ /\ wClient' = "open"
        /\ wFail' = "none"
        /\ wLeft' = wLeft
        /\ wpc' = "tags"
  /\ UNCHANGED <<burst, fieldsNil, cache, loopVars>>

\* a warm that goes on after an error of one of its first steps
ReturnsOnError_Never(step) == FALSE

\* `if err != nil { ...; return }` after client.Tags and after the write of
\* the tag list: warm returns on the error
ReturnsOnError(step) == TRUE

\* the tags the registries have: up to MaxWarmTags of the image "a", one of
\* the image "b"
RegistryTags(id) == IF id = "a" THEN WarmTags ELSE {1}

\* client.Tags(id) returns some of the tags of the image; an error is
\* logged, unless it is a deadline or cancellation error, and warm returns
ClientTags ==
  /\ wpc = "tags"
  /\ \/ /\ \E tags \in SUBSET RegistryTags(wImg) : wTags' = tags
        /\ wpc' = "store"
        /\ UNCHANGED <<wClient, wCancels, wLeft, wFail>>
     \/ /\ wFail' = "Tags"
        /\ IF ReturnsOnError("Tags") THEN WarmExit
           ELSE wpc' = "store" /\ UNCHANGED <<wClient, wCancels, wLeft>>
        /\ UNCHANGED wTags
  /\ UNCHANGED <<burst, fieldsNil, wImg, wStored, wSeen, toUpdate, fetchers,
                 awaitFetchers, wTasks, wFetched, wWrote, cache, wLogged,
                 wDropped, loopVars>>

\* json.Marshal(tags), cache.NewTagKey and Writer.SetKey(key, val); an
\* error of any of them is logged and warm returns
StoreTags ==
  /\ wpc = "store"
  /\ \/ /\ wStored' = TRUE
        /\ wpc' = "lookup"
        /\ UNCHANGED <<wClient, wCancels, wLeft, wFail>>
     \/ /\ wFail' = "SetKey"
        /\ IF ReturnsOnError("SetKey") THEN WarmExit
           ELSE wpc' = "lookup" /\ UNCHANGED <<wClient, wCancels, wLeft>>
        /\ UNCHANGED wStored
  /\ UNCHANGED <<burst, fieldsNil, wImg, wTags, wSeen, toUpdate, fetchers,
                 awaitFetchers, wTasks, wFetched, wWrote, cache, wLogged,
                 wDropped, loopVars>>

\* the tags of the call that the loop over the tags has still to look up
TagsLeft == {t \in wTags : wSeen[t] = "none"}

\* the loop over the tags is over: toUpdate is made of missing and expiring,
\* and with nothing to update warm returns
LookupsEnd(seen) ==
  /\ toUpdate' = ToUpdate(wTags, seen)
  /\ IF ToUpdate(wTags, seen) = <<>>
     THEN WarmExit
     ELSE wpc' = "fanout" /\ UNCHANGED <<wClient, wCancels, wLeft>>

\* an iteration of the loop over the tags, for the next tag of the list:
\* Reader.GetExpiration of its manifest key and time.Until, at the minute
\* of the clock, sort the tag into missing or expiring, or skip it; an
\* error is logged. After the last tag (or with no tag at all) the loop is
\* over
LookupTag ==
  /\ wpc = "lookup"
  /\ IF TagsLeft = {}
     THEN /\ LookupsEnd(wSeen)
          /\ UNCHANGED <<wSeen, wLogged>>
     ELSE LET t == CHOOSE x \in TagsLeft : \A y \in TagsLeft : x <= y
          IN \E o \in GetExpirationOutcomes(cache[wImg][t], now) :
               LET seen == [wSeen EXCEPT ![t] = o]
               IN /\ wSeen' = seen
                  /\ wLogged' = IF o = "err" THEN wLogged \cup {t} ELSE wLogged
                  /\ IF TagsLeft = {t}
                     THEN LookupsEnd(seen)
                     ELSE UNCHANGED <<wpc, toUpdate, wClient, wCancels, wLeft>>
  /\ UNCHANGED <<burst, fieldsNil, wImg, wFail, wTags, wStored, fetchers,
                 awaitFetchers, wTasks, wFetched, wWrote, cache, wDropped,
                 loopVars>>

\* an iteration of the fan-out loop begins: awaitFetchers.Add(1); warm is
\* then at its send on fetchers
AwaitAdd ==
  /\ wpc = "fanout"
  /\ toUpdate # <<>>
  /\ awaitFetchers' = awaitFetchers + 1
  /\ wpc' = "send"
  /\ UNCHANGED <<burst, fieldsNil, wLeft, wImg, wClient, wCancels, wFail,
                 wTags, wStored, wSeen, toUpdate, fetchers, wTasks, wFetched,
                 wWrote, cache, wLogged, wDropped, loopVars>>

\* the rest of the iteration: the send on fetchers goes through and
\* go func(imageID) starts the fetch goroutine
Spawn ==
  /\ wpc = "send"
  /\ CanSend(fetchers, burst)
  /\ fetchers' = fetchers + 1
  /\ wTasks' = wTasks \cup {[img |-> wImg, tag |-> Head(toUpdate), st |-> "fetching"]}
  /\ toUpdate' = Tail(toUpdate)
  /\ wpc' = "fanout"
  /\ UNCHANGED <<burst, fieldsNil, wLeft, wImg, wClient, wCancels, wFail,
                 wTags, wStored, wSeen, awaitFetchers, wFetched, wWrote, cache,
                 wLogged, wDropped, loopVars>>

\* a fetch goroutine up to awaitFetchers.Done(): client.Manifest and, on
\* success, the write of the manifest; an error is logged unless it is a
\* deadline or cancellation error
FetchFinish(x) ==
  /\ x \in wTasks
  /\ x.st = "fetching"
  /\ \E outcome \in {"ok", "err", "dropped"} :
       /\ cache' = [cache EXCEPT ![x.img][x.tag] = EntryAfterFetch(@, outcome, now)]
       /\ wWrote' = IF outcome = "ok" THEN wWrote \cup {x.tag} ELSE wWrote
       /\ wLogged' = IF outcome = "err" THEN wLogged \cup {x.tag} ELSE wLogged
       /\ wDropped' = IF outcome = "dropped" THEN wDropped \cup {x.tag} ELSE wDropped
  /\ wFetched' = wFetched \cup {x.tag}
  /\ wTasks' = (wTasks \ {x}) \cup {[x EXCEPT !.st = "releasing"]}
  /\ awaitFetchers' = awaitFetchers - 1
  /\ UNCHANGED <<burst, fieldsNil, wpc, wLeft, wImg, wClient, wCancels, wFail,
                 wTags, wStored, wSeen, toUpdate, fetchers, loopVars>>

\* the end of a fetch goroutine: <-fetchers
TokenRelease(x) ==
  /\ x \in wTasks
  /\ x.st = "releasing"
  /\ wTasks' = wTasks \ {x}
  /\ fetchers' = fetchers - 1
  /\ UNCHANGED <<burst, fieldsNil, wpc, wLeft, wImg, wClient, wCancels, wFail,
                 wTags, wStored, wSeen, toUpdate, awaitFetchers, wFetched,
                 wWrote, cache, wLogged, wDropped, loopVars>>

\* awaitFetchers.Wait() returns, and warm with it; the goroutines that have
\* still to receive from fetchers do so on a channel nothing else uses
WarmReturn ==
  /\ wpc = "fanout"
  /\ toUpdate = <<>>
  /\ WaitReturns(awaitFetchers)
  /\ wTasks' = {x \in wTasks : x.st = "fetching"}
  /\ fetchers' = 0
  /\ WarmExit
  /\ UNCHANGED <<burst, fieldsNil, wImg, wFail, wTags, wStored, wSeen,
                 toUpdate, awaitFetchers, wFetched, wWrote, cache, wLogged,
                 wDropped, loopVars>>

\* the range over the images of the pass ends: Loop is at its select (after
\* the first pass it has made the ticker on the way)
PassEnd ==
  /\ wpc = "pass"
  /\ wLeft = {}
  /\ wpc' = "select"
  /\ UNCHANGED <<burst, fieldsNil, wLeft, callVars, loopVars>>

\* whether Loop is inside a pass
InPass == wpc \in {"pass", "tags", "store", "lookup", "fanout", "send"}

\* a minute passes while Loop is inside a pass: every expiry is a minute
\* nearer. The ticker is made after the first pass; in a later pass the
\* minute is a period of the ticker, whose tick waits in the channel
\* newImages, which holds one (a second tick is dropped). The model follows
\* Loop for MaxMinutes minutes
TimePasses ==
  /\ InPass
  /\ now < MaxMinutes
  /\ now' = now + askForNewImagesInterval
  /\ tick' = (tick \/ passes >= 2)
  /\ UNCHANGED <<burst, fieldsNil, wpc, wLeft, callVars, stop, stopAt, ticks,
                 passes, wgDone>>

\* the owner of the warmer closes the stop channel; stopAt keeps the pass
\* that was running then, 0 when none was
Stop ==
  /\ ~stop
  /\ stop' = TRUE
  /\ stopAt' = IF InPass THEN passes ELSE 0
  /\ UNCHANGED <<burst, fieldsNil, wpc, wLeft, callVars, tick, ticks, now,
                 passes, wgDone>>

\* case <-stop: log, return, and the deferred wg.Done()
SelectStop ==
  /\ wpc = "select"
  /\ stop
  /\ wpc' = "exited"
  /\ wgDone' = TRUE
  /\ UNCHANGED <<burst, fieldsNil, wLeft, callVars, stop, stopAt, tick, ticks,
                 now, passes>>

\* case <-newImages: a further pass over imagesToFetchFunc(). The select
\* takes the tick that waits in the channel or, when neither channel is
\* ready, the one that arrives when the period of the ticker ends while it
\* waits; the model follows Loop for MaxTicks ticks received
SelectTick ==
  /\ wpc = "select"
  /\ ticks < MaxTicks
  /\ \/ tick /\ now' = now
     \/ /\ ~tick /\ ~stop
        /\ now < MaxMinutes
        /\ now' = now + askForNewImagesInterval
  /\ tick' = FALSE
  /\ ticks' = ticks + 1
  /\ \E imgs \in SUBSET WarmImages : wLeft' = imgs
  /\ wpc' = "pass"
  /\ passes' = passes + 1
  /\ UNCHANGED <<burst, fieldsNil, callVars, stop, stopAt, wgDone>>

otherVars == <<relVars, syncVars, filterVars>>

WarmNext ==
  \/ LoopPanic /\ UNCHANGED otherVars
  \/ LoopEntry /\ UNCHANGED otherVars
  \/ \E id \in WarmImages : WarmStart(id) /\ UNCHANGED otherVars
  \/ ClientTags /\ UNCHANGED otherVars
  \/ StoreTags /\ UNCHANGED otherVars
  \/ LookupTag /\ UNCHANGED otherVars
  \/ AwaitAdd /\ UNCHANGED otherVars
  \/ Spawn /\ UNCHANGED otherVars
  \/ \E x \in FetchTasks : FetchFinish(x) /\ UNCHANGED otherVars
  \/ \E x \in FetchTasks : TokenRelease(x) /\ UNCHANGED otherVars
  \/ WarmReturn /\ UNCHANGED otherVars
  \/ PassEnd /\ UNCHANGED otherVars
  \/ TimePasses /\ UNCHANGED otherVars
  \/ Stop /\ UNCHANGED otherVars
  \/ SelectStop /\ UNCHANGED otherVars
  \/ SelectTick /\ UNCHANGED otherVars

WarmSpec == WarmInit /\ [][WarmNext]_vars

\* the warmer task and its goroutines are scheduled and every registry and
\* cache call returns; a select with several ready cases takes each of them
\* with equal chance, so the stop case is taken sooner or later
WarmFairness ==
  /\ WF_warmVars(LoopPanic)
  /\ WF_warmVars(LoopEntry)
  /\ WF_warmVars(\E id \in WarmImages : WarmStart(id))
  /\ WF_warmVars(ClientTags)
  /\ WF_warmVars(StoreTags)
  /\ WF_warmVars(LookupTag)
  /\ WF_warmVars(AwaitAdd)
  /\ WF_warmVars(Spawn)
  /\ WF_warmVars(\E x \in FetchTasks : FetchFinish(x))
  /\ WF_warmVars(\E x \in FetchTasks : TokenRelease(x))
  /\ WF_warmVars(WarmReturn)
  /\ WF_warmVars(PassEnd)
  /\ SF_warmVars(SelectStop)

WarmLiveSpec == WarmInit /\ [][WarmNext]_vars /\ WarmFairness

Init == RelInit /\ SyncInit /\ FilterIdle /\ WarmIdle

Next ==
  \/ \E p \in Callers, j \in Jobs : Acquire(p, j) /\ UNCHANGED <<syncVars, filterVars, warmVars>>
  \/ \E p \in Callers : Reject(p) /\ UNCHANGED <<syncVars, filterVars, warmVars>>
  \/ \E p \in Callers : PlanStep(p) /\ UNCHANGED <<syncVars, filterVars, warmVars>>
  \/ \E p \in Callers : ExecStep(p) /\ UNCHANGED <<syncVars, filterVars, warmVars>>
  \/ \E p \in Callers : ExecDone(p) /\ UNCHANGED <<syncVars, filterVars, warmVars>>
  \/ \E p \in Callers : Return(p) /\ UNCHANGED <<syncVars, filterVars, warmVars>>

Spec == Init /\ [][Next]_vars

SyncNext ==
  \/ \E cmd \in ToSet(cmds), id \in SyncIds, ns \in Namespaces :
       Stage(cmd, id, ns) /\ UNCHANGED <<relVars, filterVars, warmVars>>
  \/ Execute /\ UNCHANGED <<relVars, filterVars, warmVars>>

SyncSpec == Init /\ [][SyncNext]_vars

\* the callers of either implementation of the sync engine
BothSyncNext ==
  \/ \E cmd \in ToSet(cmds), id \in SyncIds, ns \in Namespaces :
       Stage(cmd, id, ns) /\ UNCHANGED <<relVars, filterVars, warmVars>>
  \/ Execute /\ UNCHANGED <<relVars, filterVars, warmVars>>
  \/ ExecuteInline /\ UNCHANGED <<relVars, filterVars, warmVars>>

BothSyncSpec == Init /\ [][BothSyncNext]_vars

(***************************************************************************)
(* The filter pipeline run on each request and world                       *)
(***************************************************************************)
FilterInit ==
  /\ RelInit /\ SyncInit /\ WarmIdle
  /\ fIn \in {in \in FilterInputs : in.locked \subseteq in.repo}
  /\ fOut = <<>>
  /\ fDone = FALSE

RunFilter ==
  /\ ~fDone
  /\ fOut' = FilterRelease(fIn)
  /\ fDone' = TRUE
  /\ UNCHANGED <<fIn, relVars, syncVars, warmVars>>

FilterNext == RunFilter

FilterSpec == FilterInit /\ [][FilterNext]_vars

(***************************************************************************)
(* Properties of the release gate and of execute                           *)
(***************************************************************************)
CallersInGate == {p \in Callers : pc[p] \in InGate}

IsPrefix(s, t) == Len(s) <= Len(t) /\ \A i \in DOMAIN s : s[i] = t[i]

\* the descriptions a trace reported to the sink, in order
Descs(tr) ==
  LET ds == SelectSeq(tr, LAMBDA e : e.k = "desc")
  IN [i \in DOMAIN ds |-> ds[i].a]

HasEvent(tr, k) == \E i \in DOMAIN tr : tr[i].k = k
HasAction(as, type) == \E i \in DOMAIN as : as[i].type = type

\* C1: at every moment at most one call of Release is between acquiring
\* the slot of the semaphore and returning.
C1_AtMostOneInGate == Cardinality(CallersInGate) <= 1

\* a call is executing its plan after a concurrent call has been turned away
C1_Witness ==
  \E p \in Callers : pc[p] = "exec" /\ idx[p] > 1 /\ ret = ErrInProgress

\* C2: a call made while the gate is held returns "already in progress"
\* and changes nothing else: the semaphore, the position, the plan, the
\* release context and the trace (sink updates, effects) of every caller
\* stay as they are; and while the gate is held no idle caller gets past it.
C2_RejectedCallHasNoEffect ==
  [][/\ (ret' = ErrInProgress /\ ret # ErrInProgress)
          => /\ semaphore = maxSimultaneousReleases
             /\ semaphore' = semaphore
             /\ UNCHANGED <<pc, job, actions, idx, rc, trace, err, cleaned, relType>>
     /\ \A p \in Callers :
          (pc[p] = "idle" /\ CallersInGate # {}) => pc'[p] = "idle"
     /\ (CallersInGate # {} /\ semaphore' < semaphore)
          => \E p \in CallersInGate : pc[p] = "unwind" /\ pc'[p] = "idle"]_vars

\* a call was turned away while the release in flight had cloned the repo,
\* and that release is still going on
C2_Witness ==
  /\ ret = ErrInProgress
  /\ \E p \in Callers : pc[p] = "exec" /\ HasEvent(trace[p], "clone")

\* C3: the slot is given back on every exit path of a call that got it
\* (return of nil, parse error, planner error, action error, panic in a
\* body): the semaphore holds exactly one element per call in flight, so
\* once no call is in flight it is empty and the next call can acquire.
C3_SlotFreedOnEveryExit ==
  /\ semaphore = Cardinality(CallersInGate)
  /\ CallersInGate = {} => semaphore < maxSimultaneousReleases

\* the call that ended last left by a panic, and a later call holds the gate
C3_Witness ==
  /\ ret = Panicked
  /\ \E p \in Callers : pc[p] = "acquired"

\* C4: under release kind PLAN no body runs: the trace of the call has no
\* effect (clone, write, commit, regrade), no result and no error, the
\* release context stays untouched, and when execute has returned it has
\* reported the description of every action of the plan, in plan order,
\* and returned nil.
C4_PlanRunsNoBody ==
  \A p \in Callers :
    (pc[p] \in {"exec", "unwind"} /\ job[p].Kind = ReleaseKindPlan)
      => /\ \A i \in DOMAIN trace[p] : trace[p][i].k \in {"status", "desc"}
         /\ rc[p] = NewReleaseContext
         /\ pc[p] = "exec" => Descs(trace[p]) = SubSeq(actions[p], 1, idx[p] - 1)
         /\ (pc[p] = "unwind" /\ cleaned[p] > 0)
              => /\ err[p] = ErrNil
                 /\ Descs(trace[p]) = actions[p]

\* a PLAN release whose plan clones, updates, commits and regrades has been
\* through execute
C4_Witness ==
  \E p \in Callers :
    /\ pc[p] = "unwind" /\ cleaned[p] = 1 /\ job[p].Kind = ReleaseKindPlan
    /\ HasAction(actions[p], "Clone")
    /\ HasAction(actions[p], "UpdatePodController")
    /\ HasAction(actions[p], "CommitAndPush")
    /\ HasAction(actions[p], "RegradeServices")

(***************************************************************************)
(* Properties of the plans and of their execution                          *)
(***************************************************************************)
ImageUpdatingModes ==
  {"release_all_to_latest", "release_all_for_image", "release_one_to_latest",
   "release_one"}

Planned(p) == pc[p] \in {"exec", "unwind"} /\ actions[p] # <<>>

Indices(as, type) == {i \in DOMAIN as : as[i].type = type}

\* C7 as stated, for every release mode: every container regrade has current
\* and target in the same repository and current # target, and every service
\* that is in the plan (named by an UpdatePodController, FindPodController or
\* RegradeServices action) is there with a non-empty list of such regrades.
C7_AsStated ==
  \A p \in Callers :
    Planned(p) =>
      /\ \A i \in Indices(actions[p], "UpdatePodController") :
           /\ actions[p][i].regrades # <<>>
           /\ \A k \in DOMAIN actions[p][i].regrades :
                LET g == actions[p][i].regrades[k]
                IN Repository(g.current) = Repository(g.target) /\ g.current # g.target
      /\ \A s \in {actions[p][i].service : i \in Indices(actions[p], "FindPodController")}
               \cup UNION {ToSet(actions[p][i].services) :
                             i \in Indices(actions[p], "RegradeServices")} :
           \E u \in Indices(actions[p], "UpdatePodController") :
             actions[p][u].service = s /\ actions[p][u].regrades # <<>>

\* C7, amended: every container regrade of a plan has current and target in
\* the same repository and current # target; in the four image-updating
\* modes a service is in the plan (has an UpdatePodController action, is
\* named by the RegradeServices action) only with a non-empty list of such
\* regrades.  The two modes without update plan services with no regrade.
C7_RegradesWellFormed ==
  \A p \in Callers :
    Planned(p) =>
      /\ \A i \in Indices(actions[p], "UpdatePodController") :
           /\ actions[p][i].regrades # <<>>
           /\ \A k \in DOMAIN actions[p][i].regrades :
                LET g == actions[p][i].regrades[k]
                IN Repository(g.current) = Repository(g.target) /\ g.current # g.target
      /\ releaseType(job[p]) \in ImageUpdatingModes =>
           \A i \in Indices(actions[p], "RegradeServices") :
             \A k \in DOMAIN actions[p][i].services :
               \E u \in Indices(actions[p], "UpdatePodController") :
                 /\ actions[p][u].service = actions[p][i].services[k]
                 /\ actions[p][u].regrades # <<>>

\* a plan of releaseOne: one container of the service is regraded, the other
\* one uses another repository and is reported and left out
C7_Witness ==
  \E p \in Callers :
    /\ Planned(p) /\ releaseType(job[p]) = "release_one"
    /\ \E i \in Indices(actions[p], "UpdatePodController") :
         Len(actions[p][i].regrades) = 1
    /\ \E i \in Indices(actions[p], "Printf") :
         actions[p][i].text = "Image is different. Ignoring."

\* C8: under EXECUTE, when a body returns an error, execute stops there: the
\* error text is the last thing in the trace, no description of a later
\* action was reported and no body of a later action ran; what the earlier
\* actions did stays in the trace (nothing is undone); rc.Clean has run
\* exactly once when execute is left, with an error or without; and Release
\* returns the error execute returned.
C8_ErrorAbortsPlan ==
  [][\A p \in Callers :
       \* the trace only grows while the call is in flight
       /\ (pc[p] = "exec" /\ pc'[p] # "idle") => IsPrefix(trace[p], trace'[p])
       \* nothing follows the error of a body
       /\ \A i \in DOMAIN trace'[p] : trace'[p][i].k = "error" => i = Len(trace'[p])
       /\ (pc'[p] = "exec") => ~HasEvent(trace'[p], "error") /\ cleaned'[p] = 0
       \* leaving execute runs rc.Clean once
       /\ (pc[p] = "exec" /\ pc'[p] = "unwind") => cleaned'[p] = 1
       /\ (pc[p] = "unwind" /\ pc'[p] = "unwind") => cleaned'[p] = cleaned[p]
       \* an action error: only under EXECUTE, reported last, after the
       \* descriptions of the actions up to the failing one and no other
       /\ (pc'[p] = "unwind" /\ err'[p] = ErrAction)
            => /\ job'[p].Kind = ReleaseKindExecute
               /\ cleaned'[p] = 1
               /\ trace'[p][Len(trace'[p])].k = "error"
               /\ trace'[p][Len(trace'[p])].a = actions'[p][idx'[p]]
               /\ Descs(trace'[p]) = SubSeq(actions'[p], 1, idx'[p])
       \* Release returns what execute returned
       /\ (pc[p] = "unwind" /\ pc'[p] = "idle") => ret' = err[p]]_vars

\* execute was left with the error of CommitAndPush: the clone and the
\* manifest write of the earlier actions are in the trace, the regrade that
\* follows in the plan was neither reported nor run
C8_Witness ==
  \E p \in Callers :
    /\ pc[p] = "unwind" /\ err[p] = ErrAction /\ cleaned[p] = 1
    /\ idx[p] < Len(actions[p])
    /\ actions[p][idx[p]].type = "CommitAndPush"
    /\ HasEvent(trace[p], "clone") /\ HasEvent(trace[p], "write")
    /\ ~HasEvent(trace[p], "regrade")

\* C9: in the image-updating modes a plan either has no Clone,
\* UpdatePodController, CommitAndPush or RegradeServices action at all, or
\* it ends with exactly: one Clone, one UpdatePodController per service to
\* regrade (one or more, for distinct services), one CommitAndPush, one
\* RegradeServices naming exactly those services once each.  So under
\* EXECUTE every regrade submitted to the platform comes after a commit and
\* push that returned without error in the same call.
C9_PlanShape ==
  \A p \in Callers :
    (Planned(p) /\ releaseType(job[p]) \in ImageUpdatingModes) =>
      LET as == actions[p]
          n == Len(as)
          U == Indices(as, "UpdatePodController")
          c == n - Cardinality(U) - 2
      IN /\ \/ /\ U = {}
               /\ \A i \in DOMAIN as : as[i].type = "Printf"
            \/ /\ U # {}
               /\ c >= 1
               /\ Indices(as, "Clone") = {c}
               /\ U = (c + 1)..(n - 2)
               /\ Indices(as, "CommitAndPush") = {n - 1}
               /\ Indices(as, "RegradeServices") = {n}
               /\ Indices(as, "FindPodController") = {}
               /\ \A i, j \in U : i # j => as[i].service # as[j].service
               /\ Len(as[n].services) = Cardinality(U)
               /\ ToSet(as[n].services) = {as[i].service : i \in U}
         /\ \A i \in DOMAIN trace[p] :
              trace[p][i].k = "regrade"
                => \E j \in 1..(i - 1) : trace[p][j].k = "commit"

\* a release of all services has updated two manifests, committed and
\* pushed, and submitted the regrade of both services
C9_Witness ==
  \E p \in Callers :
    /\ Planned(p) /\ releaseType(job[p]) = "release_all_to_latest"
    /\ Cardinality(Indices(actions[p], "UpdatePodController")) = 2
    /\ \E i \in DOMAIN trace[p] :
         trace[p][i].k = "regrade" /\ Len(trace[p][i].svcs) = 2

(***************************************************************************)
(* Properties of the sync engine                                           *)
(***************************************************************************)
\* the arguments execute gives the tool for a command and namespace class
SyncArgs(cmd, isDefault) ==
  IF isDefault THEN <<cmd, "--namespace", "default">> ELSE <<cmd>>

\* the manifests of the change-set cs that belong to the sub-batch
SubBatch(cs, cmd, isDefault) ==
  SelectSeq(cs[cmd], LAMBDA o : hasDefaultNamespace(o) = isDefault)

\* the runs of the log made with the given arguments
RunsWith(log, args) == SelectSeq(log, LAMBDA r : r.args = args)

\* C10: for a sub-batch of N >= 1 manifests the log of the execute has, with
\* the arguments of the sub-batch, either exactly one run, the bulk run on
\* the whole stream, which succeeded, or exactly N + 1 runs: the failed bulk
\* run followed by one run per manifest in staging order, each with only
\* that manifest on standard input; these runs follow one another directly.
C10_BulkThenIndividual ==
  \A c \in ToSet(cmds), d \in BOOLEAN :
    LET batch == SubBatch(lastSet, c, d)
        runs == RunsWith(syncLog, SyncArgs(c, d))
        at == {i \in DOMAIN syncLog : syncLog[i].args = SyncArgs(c, d)}
        N == Len(batch)
    IN N >= 1 =>
         /\ Len(runs) >= 1
         /\ \A i, j \in at : \A k \in i..j : k \in at
         /\ runs[1].stdin = batch
         /\ runs[1].ok => Len(runs) = 1
         /\ ~runs[1].ok =>
              /\ Len(runs) = N + 1
              /\ \A i \in 1..N : runs[i + 1].stdin = <<batch[i]>>

\* an execute whose bulk run of three manifests failed and was followed by
\* three runs, of which the one of the second manifest failed
C10_Witness ==
  \E c \in ToSet(cmds), d \in BOOLEAN :
    LET runs == RunsWith(syncLog, SyncArgs(c, d))
    IN /\ Len(SubBatch(lastSet, c, d)) = 3
       /\ Len(runs) = 4
       /\ ~runs[1].ok /\ runs[2].ok /\ ~runs[3].ok /\ runs[4].ok

\* the identifiers whose own run, after the failed bulk run of their
\* sub-batch, failed in the log
IndividuallyFailed(log) ==
  UNION {LET runs == RunsWith(log, SyncArgs(c, d))
         IN {runs[i].stdin[1].id : i \in {k \in 2..Len(runs) : ~runs[k].ok}} :
           c \in ToSet(cmds), d \in BOOLEAN}

\* the log is the one of a tool that fails exactly on the input holding the
\* manifest m
FailsExactlyOn(log, m) ==
  \A i \in DOMAIN log :
    log[i].ok <=> \A k \in DOMAIN log[i].stdin : log[i].stdin[k] # m

\* C11: after an execute started with an empty error map and distinct
\* identifiers, the keys of the error map are exactly the identifiers of the
\* manifests whose individual run failed (so none of a sub-batch whose bulk
\* run succeeded, none whose individual run succeeded); when the tool fails
\* exactly on the inputs holding one manifest, that manifest's identifier is
\* the only key.
C11_ErrsAreIndividualFailures ==
  /\ errs = IndividuallyFailed(syncLog)
  /\ \A c \in ToSet(cmds) : \A k \in DOMAIN lastSet[c] :
       FailsExactlyOn(syncLog, lastSet[c][k]) => errs = {lastSet[c][k].id}

\* three apply manifests of one sub-batch, the tool failing exactly on the
\* inputs with the middle one: its identifier alone is in the error map
C11_Witness ==
  /\ Len(lastSet["apply"]) = 3 /\ lastSet["delete"] = <<>>
  /\ Len(syncLog) = 4
  /\ FailsExactlyOn(syncLog, lastSet["apply"][2])
  /\ errs = {lastSet["apply"][2].id}

\* the number of staged manifests
StagedCount(cs) == Len(cs["delete"]) + Len(cs["apply"])

\* C12: a step that stages appends one manifest at the end of the bucket of
\* its operation and leaves the other bucket as it was; any other step that
\* changes the sync engine is an execute, after which every bucket is empty
\* whatever the outcomes of the runs, and whose runs are given only
\* manifests staged since the execute before.
C12_ChangeSetLifecycle ==
  [][IF StagedCount(objs') > StagedCount(objs)
     THEN \E c \in ToSet(cmds), id \in SyncIds, ns \in Namespaces :
            objs' = [objs EXCEPT ![c] = objs[c] \o <<MkObj(id, ns)>>]
     ELSE /\ \A c \in ToSet(cmds) : objs'[c] = <<>>
          /\ \A i \in DOMAIN syncLog' : \A k \in DOMAIN syncLog'[i].stdin :
               \E c \in ToSet(cmds) : \E n \in DOMAIN objs[c] :
                 objs[c][n] = syncLog'[i].stdin[k]]_syncVars

\* an execute of two manifests staged one after the other in one bucket and
\* one in the other, with a failed run, has left the change-set empty
C12_Witness ==
  /\ Len(lastSet["apply"]) = 2 /\ Len(lastSet["delete"]) = 1
  /\ \E i \in DOMAIN syncLog : ~syncLog[i].ok
  /\ errs # {}
  /\ objs = NoObjs

\* the place of a sub-batch in the order of execute
SubBatchRank(args) ==
  IF args = SyncArgs("delete", TRUE) THEN 1
  ELSE IF args = SyncArgs("delete", FALSE) THEN 2
  ELSE IF args = SyncArgs("apply", TRUE) THEN 3
  ELSE 4

\* C13: in the log of one execute the runs come in the order delete/default,
\* delete/other, apply/default, apply/other (so the runs of one sub-batch
\* follow one another directly, its bulk run first, and every delete run
\* precedes every apply run), and every non-empty sub-batch has its bulk
\* run, whatever failed before it.
C13_SubBatchOrder ==
  /\ \A i, j \in DOMAIN syncLog :
       i <= j => SubBatchRank(syncLog[i].args) <= SubBatchRank(syncLog[j].args)
  /\ \A c \in ToSet(cmds), d \in BOOLEAN :
       SubBatch(lastSet, c, d) # <<>> =>
         \E i \in DOMAIN syncLog :
           /\ syncLog[i].args = SyncArgs(c, d)
           /\ syncLog[i].stdin = SubBatch(lastSet, c, d)
           /\ \A k \in 1..(i - 1) : syncLog[k].args # SyncArgs(c, d)

\* an execute with a delete sub-batch all of whose runs failed and, after
\* it, the runs of two apply sub-batches
C13_Witness ==
  /\ \E i \in DOMAIN syncLog : syncLog[i].args = SyncArgs("apply", TRUE)
  /\ \E i \in DOMAIN syncLog : syncLog[i].args = SyncArgs("apply", FALSE)
  /\ \E i \in DOMAIN syncLog : syncLog[i].args[1] = "delete"
  /\ \A i \in DOMAIN syncLog : syncLog[i].args[1] = "delete" => ~syncLog[i].ok
  /\ lastSet["delete"] # <<>>
  /\ errs # {}

(***************************************************************************)
(* Properties of the choice of the release mode                            *)
(***************************************************************************)
\* the mode of a (workload selector, image selector) pair
ModeOfPair(serviceSpec, imageSpec) ==
  LET all == serviceSpec = ServiceSpecAll
      sel == IF imageSpec = ImageSpecLatest THEN "latest"
             ELSE IF imageSpec = ImageSpecNone THEN "none" ELSE "ref"
  IN CASE all /\ sel = "latest" -> "release_all_to_latest"
       [] all /\ sel = "none" -> "release_all_without_update"
       [] all /\ sel = "ref" -> "release_all_for_image"
       [] ~all /\ sel = "latest" -> "release_one_to_latest"
       [] ~all /\ sel = "none" -> "release_one_without_update"
       [] ~all /\ sel = "ref" -> "release_one"

\* C17: the mode Release chooses is the one the table gives for the pair
\* (workload selector, image selector) of the job, whatever its kind and its
\* exclusion set.
C17_ModeIsFunctionOfPair ==
  \A p \in Callers :
    pc[p] \in {"exec", "unwind"} =>
      relType[p] = ModeOfPair(job[p].ServiceSpec, job[p].ImageSpec)

\* a PLAN job for all workloads and a specific image, with an exclusion, is
\* being executed in the mode release-all-for-image
C17_Witness ==
  \E p \in Callers :
    /\ pc[p] = "exec"
    /\ job[p].ServiceSpec = ServiceSpecAll
    /\ job[p].ImageSpec \in Images
    /\ job[p].Kind = ReleaseKindPlan
    /\ job[p].Excludes # {}
    /\ relType[p] = "release_all_for_image"

(***************************************************************************)
(* Properties of the warmer                                                *)
(***************************************************************************)
\* the fetches in flight: the goroutines that are in client.Manifest or in
\* the write of its result
InFlight == {x \in wTasks : x.st = "fetching"}

\* C14: for Burst >= 1 there are never more than Burst fetches in flight,
\* and every fetch in flight is one of the image that the warm call in
\* progress is warming, so the fetches of two images never overlap.
C14_FetchesBoundedAndSerial ==
  /\ burst >= 1 => Cardinality(InFlight) <= burst
  /\ \A x \in InFlight : wpc \in {"fanout", "send"} /\ x.img = wImg

\* Burst fetches of the last image of a pass after a tick are in flight at
\* once
C14_Witness ==
  /\ burst = MaxBurst
  /\ Cardinality(InFlight) = burst
  /\ wLeft = {wImg}
  /\ passes > 1

\* a warm call that fetched and stored the tag list has returned
WarmCompleted ==
  /\ wpc \in {"pass", "select", "exited"}
  /\ wImg # NoImage
  /\ wStored

\* the tags whose manifest entry a step of warm looks up
LookedUp == {t \in WarmTags : wSeen[t] = "none" /\ wSeen'[t] # "none"}

\* the tags a step of a fetch goroutine writes the manifest of
WrittenBy == IF wpc \in {"fanout", "send"} THEN wWrote' \ wWrote ELSE {}

\* C15 as stated: when such a warm call returns, every tag the registry
\* returned has a manifest in the cache that expires later than the refresh
\* horizon of that moment, or an error was logged for it.
C15_AsStated ==
  [][(wpc \in {"lookup", "fanout"} /\ wpc' = "pass") =>
       \A t \in wTags :
         EntryState(cache'[wImg][t], now') = "fresh" \/ t \in wLogged']_vars

\* C15, amended: after such a warm call every tag the registry returned has
\* a manifest in the cache that the call found or wrote, with an expiry
\* later than the refresh horizon at the time of the lookup or the write, or
\* an error was logged for it, or its fetch failed with a deadline or
\* cancellation error, which is not logged.
C15_FreshOrLoggedOrDropped ==
  /\ [](WarmCompleted =>
          \A t \in wTags :
            \/ cache[wImg][t].cached /\ (wSeen[t] = "fresh" \/ t \in wWrote)
            \/ t \in wLogged
            \/ t \in wDropped)
  /\ [][/\ \A t \in LookedUp :
             wSeen'[t] = "fresh" =>
               /\ cache[wImg][t].cached
               /\ cache[wImg][t].exp - now > refreshWhenExpiryWithin
        /\ \A t \in WrittenBy :
             /\ cache'[wImg][t].cached
             /\ cache'[wImg][t].exp - now > refreshWhenExpiryWithin
       ]_vars

\* a warm call has returned after one fetch that wrote its manifest, one
\* whose error was logged and none that was dropped
C15_Witness ==
  /\ WarmCompleted
  /\ wTags = WarmTags
  /\ wDropped = {}
  /\ \E t \in wTags :
       t \in wLogged /\ EntryState(cache[wImg][t], now) # "fresh"
  /\ \E t \in wTags :
       /\ t \notin wLogged /\ t \in wWrote
       /\ EntryState(cache[wImg][t], now) = "fresh"

\* C16 as stated: the loop makes one pass on entry and one more per tick it
\* receives, and once the stop signal is raised it eventually exits and
\* signals its wait group.
C16_AsStated ==
  /\ [](passes = (IF wpc \in {"entry", "panicked"} THEN 0 ELSE 1) + ticks)
  /\ (stop ~> wgDone)

\* with room for at least one fetch the loop does exit after the stop signal
ExitsWhenBurstPositive == (stop /\ burst >= 1) ~> wgDone

\* with no room for a fetch the warm call waits for ever on its send
BlockedOnSend ==
  /\ burst = 0
  /\ wpc = "send"
  /\ toUpdate # <<>>
  /\ stop

(***************************************************************************)
(* Properties of the result map                                            *)
(***************************************************************************)
\* the workloads a release has to report on
Candidates(in) == in.repo \cup SelectedIds(in)

\* C5: the result map has exactly one entry per candidate workload (those
\* with a manifest in the repository and those selected by name); its status
\* is SUCCESS, IGNORED, SKIPPED or FAILED; an entry that is not SUCCESS
\* carries one error tag of the closed vocabulary, a SUCCESS entry none.
C5_OneResultPerCandidate ==
  fDone =>
    /\ DOMAIN fOut = Candidates(fIn)
    /\ \A w \in DOMAIN fOut :
         /\ fOut[w].Status \in Statuses
         /\ fOut[w].Status # ReleaseStatusSuccess => fOut[w].Error \in ErrorTags
         /\ fOut[w].Status = ReleaseStatusSuccess => fOut[w].Error = ""

\* a result map with a SUCCESS entry and the entry of a selected workload
\* that has no manifest in the repository
C5_Witness ==
  /\ fDone
  /\ \E w \in DOMAIN fOut : fOut[w].Status = ReleaseStatusSuccess
  /\ \E w \in DOMAIN fOut : w \notin fIn.repo /\ fOut[w].Error = "NotInRepo"

\* C6 as stated: the first predicate that matches in the order not
\* included, excluded, not in cluster, not in repository, locked decides
\* the entry, before any predicate on the images.
C6_AsStated ==
  fDone =>
    \A w \in Candidates(fIn) :
      LET r == fOut[w]
      IN IF ~IsIncluded(fIn, w)
         THEN r.Status = ReleaseStatusIgnored /\ r.Error = "NotIncluded"
         ELSE IF w \in fIn.excludes
         THEN r.Status = ReleaseStatusIgnored /\ r.Error = "Excluded"
         ELSE IF w \notin fIn.running
         THEN r.Status = ReleaseStatusSkipped /\ r.Error = "NotInCluster"
         ELSE IF w \notin fIn.repo
         THEN r.Status = ReleaseStatusSkipped /\ r.Error = "NotInRepo"
         ELSE IF w \in fIn.locked
         THEN r.Status = ReleaseStatusSkipped /\ r.Error = "Locked"
         ELSE TRUE

\* the error tag the first matching predicate gives, in the order: not
\* included, excluded, not in repository, not in cluster, specific image of
\* a repository no container uses, locked, no update (a container already
\* runs the image; no container has an image to go to)
FirstMatch(in, w) ==
  LET cs == in.containers[w]
      specific == in.image # ImageSpecLatest
      hasUpdate == \E i \in DOMAIN cs :
                     IF specific
                     THEN Repository(cs[i].Image) = Repository(in.image)
                          /\ cs[i].Image # in.image
                     ELSE in.reg[Repository(cs[i].Image)] \notin {0, cs[i].Image.tag}
      atTarget == \E i \in DOMAIN cs :
                    IF specific
                    THEN cs[i].Image = in.image
                    ELSE in.reg[Repository(cs[i].Image)] = cs[i].Image.tag
  IN IF ~(ServiceSpecAll \in in.specs \/ w \in in.specs) THEN "NotIncluded"
     ELSE IF w \in in.excludes THEN "Excluded"
     ELSE IF w \notin in.repo THEN "NotInRepo"
     ELSE IF w \notin in.running THEN "NotInCluster"
     ELSE IF specific /\ \A i \in DOMAIN cs :
                           Repository(cs[i].Image) # Repository(in.image)
     THEN "DifferentImage"
     ELSE IF w \in in.locked THEN "Locked"
     ELSE IF hasUpdate THEN ""
     ELSE IF atTarget THEN "ImageUpToDate"
     ELSE "DoesNotUseImage"

StatusOfTag(in, tag) ==
  IF tag = "" THEN ReleaseStatusSuccess
  ELSE IF tag \in {"NotIncluded", "Excluded", "DifferentImage", "DoesNotUseImage"}
  THEN ReleaseStatusIgnored
  ELSE IF tag = "ImageUpToDate" /\ in.image # ImageSpecLatest
  THEN ReleaseStatusIgnored
  ELSE ReleaseStatusSkipped

\* C6, amended: the entry of a candidate workload is decided by the first
\* predicate that matches in the order not included, excluded, not in
\* repository, not in cluster, specific image of a repository that none of
\* its containers uses (IGNORED/DifferentImage), locked, no container to
\* update (ImageUpToDate if a container already runs the image, else
\* DoesNotUseImage), otherwise SUCCESS with a non-empty list of updates.
C6_FirstMatchDecides ==
  fDone =>
    \A w \in Candidates(fIn) :
      /\ fOut[w].Error = FirstMatch(fIn, w)
      /\ fOut[w].Status = StatusOfTag(fIn, fOut[w].Error)
      /\ fOut[w].Status = ReleaseStatusSuccess <=> fOut[w].PerContainer # <<>>

\* a locked workload none of whose containers uses the specific image is
\* IGNORED/DifferentImage, and a selected workload that is neither in the
\* repository nor in the cluster is SKIPPED/NotInRepo
C6_Witness ==
  /\ fDone
  /\ \E w \in fIn.locked \cap fIn.running : fOut[w].Error = "DifferentImage"
  /\ \E w \in DOMAIN fOut :
       w \notin fIn.repo /\ w \notin fIn.running /\ fOut[w].Error = "NotInRepo"

\* the entry of a workload that was not acted upon
Entry(status, tag) == ControllerResult(status, tag, <<>>)

\* C18: when the request names only specific workloads, every other workload
\* with a manifest in the repository is IGNORED/NotIncluded; when ALL is
\* among the selectors, alone or with names, no workload is NotIncluded and
\* the result map is the one of the same request with ALL alone.
C18_InclusionFilter ==
  fDone =>
    /\ ServiceSpecAll \notin fIn.specs =>
         \A w \in fIn.repo \ fIn.specs :
           fOut[w] = Entry(ReleaseStatusIgnored, "NotIncluded")
    /\ ServiceSpecAll \in fIn.specs =>
         /\ \A w \in DOMAIN fOut : fOut[w].Error # "NotIncluded"
         /\ fOut = FilterRelease([fIn EXCEPT !.specs = {ServiceSpecAll}])

\* a request that names one workload together with ALL has updated another
C18_Witness ==
  /\ fDone
  /\ ServiceSpecAll \in fIn.specs
  /\ \E w \in fIn.specs \cap fIn.repo :
       \E v \in fIn.repo \ fIn.specs : fOut[v].Status = ReleaseStatusSuccess

\* C19: under ALL with a specific image, a workload that is not excluded, has
\* a manifest in the repository and runs in the cluster, and none of whose
\* containers has an image of the repository of that image, is
\* IGNORED/DifferentImage, locked or not.
C19_DifferentImage ==
  (fDone /\ ServiceSpecAll \in fIn.specs /\ fIn.image \in Images) =>
    \A w \in (fIn.repo \cap fIn.running) \ fIn.excludes :
      (\A i \in DOMAIN fIn.containers[w] :
         fIn.containers[w][i].Image.repo # fIn.image.repo)
      => fOut[w] = Entry(ReleaseStatusIgnored, "DifferentImage")

\* a locked workload with a container, of another repository, got
\* IGNORED/DifferentImage while another workload was updated
C19_Witness ==
  /\ fDone /\ ServiceSpecAll \in fIn.specs /\ fIn.image \in Images
  /\ \E w \in fIn.locked \cap fIn.running :
       /\ fIn.containers[w] # <<>>
       /\ fOut[w] = Entry(ReleaseStatusIgnored, "DifferentImage")
  /\ \E w \in DOMAIN fOut : fOut[w].Status = ReleaseStatusSuccess

\* C20 as stated: a workload selected by name (and not excluded) that has no
\* manifest in the repository has its own entry, SKIPPED/NotInRepo, whether
\* or not it runs in the cluster, every workload of the repository that the
\* request does not name is IGNORED/NotIncluded, and the release returns no
\* error: the release of the one workload named is planned without error.
C20_AsStated ==
  (fDone /\ ServiceSpecAll \notin fIn.specs) =>
    /\ \A w \in fIn.specs \ (fIn.repo \cup fIn.excludes) :
         /\ w \in DOMAIN fOut
         /\ fOut[w] = Entry(ReleaseStatusSkipped, "NotInRepo")
         /\ fIn.specs = {w} => \A plan \in PlanOne(fIn) : plan.err = ErrNil
    /\ \A w \in fIn.repo \ fIn.specs :
         fOut[w] = Entry(ReleaseStatusIgnored, "NotIncluded")

\* the workload named has no manifest and does not run in the cluster: the
\* map has its entry SKIPPED/NotInRepo, and releaseOneToLatest returns the
\* error of PlatformContainersFor
C20_Failure ==
  /\ fDone /\ fIn.image = ImageSpecLatest
  /\ \E w \in Services :
       /\ fIn.specs = {w} /\ fIn.excludes = {}
       /\ w \notin fIn.repo /\ w \notin fIn.running
       /\ fOut[w] = Entry(ReleaseStatusSkipped, "NotInRepo")
       /\ PlanOne(fIn) = {PlanErr(ErrPlan)}

\* what holds of the map and of the planners: the entries are as stated, and
\* the release of the one workload named is planned without error exactly
\* when the workload is excluded or runs in the cluster with repositories
\* the registry can answer for
C20_NotInRepo ==
  (fDone /\ ServiceSpecAll \notin fIn.specs) =>
    /\ \A w \in fIn.specs \ (fIn.repo \cup fIn.excludes) :
         /\ w \in DOMAIN fOut
         /\ fOut[w] = Entry(ReleaseStatusSkipped, "NotInRepo")
    /\ \A w \in fIn.repo \ fIn.specs :
         fOut[w] = Entry(ReleaseStatusIgnored, "NotIncluded")
    /\ \A w \in fIn.specs \ (fIn.repo \cup fIn.excludes) :
         (fIn.specs = {w} /\ w \notin fIn.running) =>
           PlanOne(fIn) = {PlanErr(ErrPlan)}

\* the only workload named has no manifest and does not run in the cluster;
\* the one workload of the repository is not included
C20_Witness ==
  /\ fDone
  /\ \E w \in Services :
       /\ fIn.specs = {w}
       /\ w \notin fIn.repo /\ w \notin fIn.running
       /\ fIn.repo = Services \ {w}
       /\ fOut[w] = Entry(ReleaseStatusSkipped, "NotInRepo")
       /\ \A v \in fIn.repo : fOut[v].Error = "NotIncluded"


(***************************************************************************)
(* Properties of the result map and of the plan of one request             *)
(***************************************************************************)
\* C21: a workload that is included and not excluded, has a manifest in the
\* repository and does not run in the cluster is SKIPPED/NotInCluster,
\* whatever the image selector (LATEST, or a specific image, of a repository
\* the workload uses or not) and whether or not the workload is locked.
C21_NotInCluster ==
  fDone =>
    \A w \in fIn.repo \ (fIn.running \cup fIn.excludes) :
      IsIncluded(fIn, w) =>
        fOut[w] = Entry(ReleaseStatusSkipped, "NotInCluster")

\* a locked workload with a manifest, absent from the cluster, under a
\* specific image of a repository none of its containers uses, and another
\* such workload that is not locked
C21_Witness ==
  /\ fDone /\ fIn.image \in Images
  /\ \E w \in fIn.repo \cap fIn.locked :
       /\ w \notin fIn.running /\ w \notin fIn.excludes /\ IsIncluded(fIn, w)
       /\ fIn.containers[w] # <<>> /\ ~UsesImageRepo(fIn, w)
       /\ fOut[w] = Entry(ReleaseStatusSkipped, "NotInCluster")
  /\ \E w \in fIn.repo \ fIn.locked :
       /\ w \notin fIn.running /\ w \notin fIn.excludes /\ IsIncluded(fIn, w)
       /\ fOut[w] = Entry(ReleaseStatusSkipped, "NotInCluster")


\* whether each container of the workload runs the newest image the registry
\* has of its repository
AllAtLatest(in, w) ==
  /\ in.containers[w] # <<>>
  /\ \A i \in DOMAIN in.containers[w] :
       in.reg[Repository(in.containers[w][i].Image)] = in.containers[w][i].Image.tag

\* a plan of messages only: execute runs no body that can fail or act
OnlyPrintf(plan) ==
  /\ plan.err = ErrNil
  /\ \A i \in DOMAIN plan.res : plan.res[i].type = "Printf"

\* C22: under LATEST, a selected workload of cluster and repository that is
\* not locked and whose containers (it has at least one) all run the newest
\* image of their repositories is SKIPPED/ImageUpToDate; the release of that
\* workload plans without error and its plan has no Clone, UpdateManifest,
\* CommitAndPush or RegradeWorkloads, only messages.
C22_ImageUpToDate ==
  fIn.image = ImageSpecLatest =>
    \A w \in (fIn.repo \cap fIn.running) \ (fIn.locked \cup fIn.excludes) :
      (IsIncluded(fIn, w) /\ AllAtLatest(fIn, w)) =>
        /\ fDone => fOut[w] = Entry(ReleaseStatusSkipped, "ImageUpToDate")
        /\ (fDone /\ fIn.specs = {w}) =>
             \A plan \in PlanOne(fIn) : OnlyPrintf(plan)

\* the workload named has two containers of two repositories, both at the
\* newest image: the map says so and the plan is the opening message, one
\* message per container and the closing one
C22_Witness ==
  /\ fDone /\ fIn.image = ImageSpecLatest
  /\ \E w \in (fIn.repo \cap fIn.running) \ (fIn.locked \cup fIn.excludes) :
       /\ fIn.specs = {w}
       /\ AllAtLatest(fIn, w)
       /\ Len(fIn.containers[w]) = 2
       /\ Repository(fIn.containers[w][1].Image) # Repository(fIn.containers[w][2].Image)
       /\ fOut[w] = Entry(ReleaseStatusSkipped, "ImageUpToDate")
       /\ \E plan \in PlanOne(fIn) : OnlyPrintf(plan) /\ Len(plan.res) = 4


\* whether the registry has no image of the repository of any container of
\* the workload
NoImages(in, w) ==
  /\ in.containers[w] # <<>>
  /\ \A i \in DOMAIN in.containers[w] :
       in.reg[Repository(in.containers[w][i].Image)] = 0

\* C23 as stated: under LATEST, a selected workload of cluster and
\* repository, locked or not, for none of whose containers (it has at least
\* one) the registry has any image is IGNORED/DoesNotUseImage, and the
\* release of that workload returns no error.
C23_AsStated ==
  fIn.image = ImageSpecLatest =>
    \A w \in (fIn.repo \cap fIn.running) \ fIn.excludes :
      (IsIncluded(fIn, w) /\ NoImages(fIn, w)) =>
        /\ fDone => fOut[w] = Entry(ReleaseStatusIgnored, "DoesNotUseImage")
        /\ (fDone /\ fIn.specs = {w}) =>
             \A plan \in PlanOne(fIn) : OnlyPrintf(plan)

\* C23, amended: under LATEST, a selected workload of cluster and repository
\* for none of whose containers (it has at least one) the registry has any
\* image is IGNORED/DoesNotUseImage when it is not locked, neither
\* SKIPPED/ImageUpToDate nor SUCCESS, and SKIPPED/Locked when it is locked;
\* either way the release of that workload returns no error: its plan is
\* made without error and has messages only.
C23_ImageNotFound ==
  fIn.image = ImageSpecLatest =>
    \A w \in (fIn.repo \cap fIn.running) \ fIn.excludes :
      (IsIncluded(fIn, w) /\ NoImages(fIn, w)) =>
        /\ fDone => fOut[w] = IF w \in fIn.locked
                              THEN Entry(ReleaseStatusSkipped, "Locked")
                              ELSE Entry(ReleaseStatusIgnored, "DoesNotUseImage")
        /\ (fDone /\ fIn.specs = {w}) =>
             \A plan \in PlanOne(fIn) : OnlyPrintf(plan)

\* the workload named has two containers of two repositories without
\* images; the plan says so of each and ends with nothing to do
C23_Witness ==
  /\ fDone /\ fIn.image = ImageSpecLatest
  /\ \E w \in (fIn.repo \cap fIn.running) \ (fIn.locked \cup fIn.excludes) :
       /\ fIn.specs = {w}
       /\ NoImages(fIn, w)
       /\ Len(fIn.containers[w]) = 2
       /\ fOut[w] = Entry(ReleaseStatusIgnored, "DoesNotUseImage")
       /\ \E plan \in PlanOne(fIn) :
            /\ plan.err = ErrNil /\ Len(plan.res) = 4
            /\ plan.res[2] = releaseActionPrintf("The service image had no images available in its repository; very strange!")
            /\ plan.res[3] = plan.res[2]


(***************************************************************************)
(* Properties of the bodies of the actions                                 *)
(***************************************************************************)
\* the services the trace reports a regrade result of the given text for
Reported(tr, text) ==
  {tr[i].svcs[1] : i \in {j \in DOMAIN tr : tr[j].k = "history" /\ tr[j].text = text}}

\* C24 as stated: the errors the platform returns for single services in a
\* regrade are recorded per service and the release does not fail on their
\* account: the body of RegradeServices returns no error and Release
\* returns nil.
C24_AsStated ==
  \A p \in Callers :
    (pc[p] = "unwind" /\ Reported(trace[p], RegradeFailed) # {})
      => err[p] = ErrNil /\ ~HasEvent(trace[p], "error")

\* what the code does with them: each is recorded for its service, and the
\* body returns the error of the transaction, which execute and Release
\* return
C24_RecordedAndReturned ==
  \A p \in Callers :
    (pc[p] = "unwind" /\ Reported(trace[p], RegradeFailed) # {})
      => /\ err[p] = ErrAction
         /\ trace[p][Len(trace[p])].k = "error"
         /\ trace[p][Len(trace[p])].a.type = "RegradeServices"
         /\ Reported(trace[p], RegradeFailed)
              \subseteq ToSet(trace[p][Len(trace[p])].a.services)

\* the platform failed the regrade of one of two services
C24_Failure ==
  \E p \in Callers :
    /\ pc[p] = "unwind"
    /\ Cardinality(Reported(trace[p], RegradeFailed)) = 1
    /\ Cardinality(Reported(trace[p], RegradeDone)) = 1


(***************************************************************************)
(* Properties of the two implementations of the sync engine                *)
(***************************************************************************)
\* the log is the one of a tool that fails exactly on the inputs holding a
\* manifest of Bad
FailsOn(log, Bad) ==
  \A i \in DOMAIN log :
    log[i].ok <=> \A k \in DOMAIN log[i].stdin : log[i].stdin[k].id \notin Bad

\* C25 as stated: the execute of release.go and the one of part_000 both
\* make up for a failed bulk run with one run per manifest and leave the
\* same error map: whatever manifests the tool fails on, the error map the
\* execute of release.go left is the one the execute of part_000 leaves for
\* the same change-set and the same tool, and a failed bulk run of release.go
\* is followed by the runs of its manifests.
C25_AsStated ==
  syncImpl = "release.go" =>
    \A Bad \in SUBSET StagedIds(lastSet) :
      FailsOn(syncLog, Bad) =>
        /\ \A out \in execute(lastSet, {}) :
             FailsOn(out.log, Bad) => out.errs = errs
        /\ C10_BulkThenIndividual

\* what the execute of release.go does: one bulk run per sub-batch, no run
\* of a single manifest after a failed one, nothing in the error map
C25_InlineNeverRetries ==
  syncImpl = "release.go" =>
    /\ errs = {}
    /\ Len(syncLog) = 2 * Len(cmds)
    /\ \A c \in ToSet(cmds), d \in BOOLEAN :
         \E i \in DOMAIN syncLog :
           syncLog[i].args = SyncArgs(c, d) /\ syncLog[i].stdin = SubBatch(lastSet, c, d)

\* the execute of release.go ran on two manifests of one sub-batch and the
\* bulk run failed
C25_Failure ==
  /\ syncImpl = "release.go"
  /\ Len(lastSet["apply"]) = 2
  /\ \E i \in DOMAIN syncLog : ~syncLog[i].ok /\ Len(syncLog[i].stdin) = 2

\* C26 as stated: either implementation runs the tool only for sub-batches
\* that hold a manifest: no run of a log has an empty standard input, and
\* the execute of an empty change-set makes no run at all.
C26_AsStated ==
  syncImpl # "" =>
    /\ \A i \in DOMAIN syncLog : syncLog[i].stdin # <<>>
    /\ StagedCount(lastSet) = 0 => syncLog = <<>>

\* the same of the execute of part_000 alone
C26_PartOnly ==
  syncImpl = "part_000" =>
    /\ \A i \in DOMAIN syncLog : syncLog[i].stdin # <<>>
    /\ StagedCount(lastSet) = 0 => syncLog = <<>>

\* the execute of release.go ran on an empty change-set
C26_Failure ==
  /\ syncImpl = "release.go"
  /\ StagedCount(lastSet) = 0
  /\ Len(syncLog) = 4


\* the answers of the file system with n files for the service and nothing
\* else going wrong
FilesFound(a, ctx, n) ==
  {in \in DoInputs(a, ctx) : in.valid /\ in.fault = "none" /\ in.files = n}

\* the UpdatePodController action a call is about to run
NextUpdate(p) ==
  /\ pc[p] = "exec" /\ idx[p] <= Len(actions[p])
  /\ job[p].Kind = ReleaseKindExecute
  /\ actions[p][idx[p]].type = "UpdatePodController"

\* C27 as stated: whenever the number of resource definition files found for
\* the service is not exactly one, none or several, the body of
\* UpdatePodController returns an error (which aborts the plan), writes no
\* file and stores nothing in the release context.
C27_AsStated ==
  \A p \in Callers :
    NextUpdate(p) =>
      \A n \in 0..MaxFiles : n # 1 =>
        \A in \in FilesFound(actions[p][idx[p]], rc[p], n) :
          LET st == executeAction(job[p].Kind, actions[p][idx[p]], rc[p], in)
          IN /\ st.err = ErrAction /\ ~LoopContinues(st.err)
             /\ st.rc = rc[p]
             /\ \A i \in DOMAIN st.events : st.events[i].k # "write"

\* what the body does: several files are an error that aborts the plan, no
\* file is a message ("no resource definition file found; skipping") and a
\* nil error, after which the plan goes on; in both cases nothing is written
\* and nothing stored
C27_ManyFailNoneSkips ==
  \A p \in Callers :
    NextUpdate(p) =>
      \A n \in 0..MaxFiles : n # 1 =>
        \A in \in FilesFound(actions[p][idx[p]], rc[p], n) :
          LET st == executeAction(job[p].Kind, actions[p][idx[p]], rc[p], in)
          IN /\ st.err = IF n = 0 THEN ErrNil ELSE ErrAction
             /\ LoopContinues(st.err) <=> n = 0
             /\ st.rc = rc[p]
             /\ \A i \in DOMAIN st.events : st.events[i].k # "write"

\* the positions of the trace with the given kind of entry
EventsOf(tr, k) == {i \in DOMAIN tr : tr[i].k = k}

\* a release went past an UpdatePodController that found no file: it
\* committed, pushed and regraded, and returned nil
C27_Failure ==
  \E p \in Callers :
    /\ pc[p] = "unwind" /\ err[p] = ErrNil
    /\ \E i \in EventsOf(trace[p], "result") :
         /\ trace[p][i].a.type = "UpdatePodController"
         /\ trace[p][i].text = "no resource definition file found; skipping"
         /\ \E j \in EventsOf(trace[p], "commit") : j > i
    /\ EventsOf(trace[p], "write") = {}

\* C28: the body of RegradeServices submits, in one call to the platform,
\* the listed services that have an entry in the release context, in the
\* order of the list, each with the definition stored for it, and no other;
\* a listed service without entry gets the error "no pod controller in
\* release context; skipping regrade", which neither keeps the others from
\* being submitted nor makes the body return an error: the body returns an
\* error only when the platform returned one.
C28_RegradeSubmitsStored ==
  \A p \in Callers : \A i \in EventsOf(trace[p], "regrade") :
    LET a == trace[p][i].a
        stored == rc[p].PodControllers
        with == SelectSeq(a.services, LAMBDA s : s \in DOMAIN stored)
        returned == pc[p] = "exec" \/ err[p] # Panicked
    IN /\ EventsOf(trace[p], "regrade") = {i}
       /\ trace[p][i].svcs = [k \in DOMAIN with |-> RegradeSpec(with[k], stored[with[k]])]
       /\ returned =>
            /\ Reported(trace[p], RegradeNoPodController) = ToSet(a.services) \ DOMAIN stored
            /\ Reported(trace[p], RegradeFailed) = {} =>
                 /\ ~HasEvent(trace[p], "error")
                 /\ pc[p] = "unwind" => err[p] = ErrNil

\* of two listed services one has no entry (its UpdatePodController found no
\* file): the other one alone was submitted, with its definition, and the
\* release returned nil
C28_Witness ==
  \E p \in Callers : \E i \in EventsOf(trace[p], "regrade") :
    /\ pc[p] = "unwind" /\ err[p] = ErrNil
    /\ Len(trace[p][i].a.services) = 2
    /\ Len(trace[p][i].svcs) = 1
    /\ trace[p][i].svcs[1].NewDefinition # {}
    /\ Cardinality(Reported(trace[p], RegradeNoPodController)) = 1
    /\ Reported(trace[p], RegradeDone) = {trace[p][i].svcs[1].Service}


(***************************************************************************)
(* Properties of the planners: exclusion and failure                       *)
(***************************************************************************)
\* the services a plan names in an UpdatePodController, FindPodController
\* or RegradeServices action
NamedInPlan(as) ==
  {as[i].service : i \in Indices(as, "UpdatePodController") \cup Indices(as, "FindPodController")}
  \cup UNION {ToSet(as[i].services) : i \in Indices(as, "RegradeServices")}

\* C29: in every release mode and for every request, no UpdatePodController,
\* FindPodController or RegradeServices action of the plan names a service
\* of the exclusion set; and the plan of a request whose one selected
\* service is excluded has no Clone.
C29_ExcludedNeverPlanned ==
  \A p \in Callers :
    Planned(p) =>
      /\ NamedInPlan(actions[p]) \cap job[p].Excludes = {}
      /\ job[p].ServiceSpec \in job[p].Excludes => ~HasAction(actions[p], "Clone")

\* a release of all services with one of the two excluded regrades the
\* other one
C29_Witness ==
  \E p \in Callers :
    /\ Planned(p) /\ job[p].ServiceSpec = ServiceSpecAll
    /\ Cardinality(job[p].Excludes) = 1
    /\ NamedInPlan(actions[p]) = Services \ job[p].Excludes
    /\ HasAction(actions[p], "Clone")

\* the plan of a request for one service, which is excluded: two messages
C29_WitnessOne ==
  \E p \in Callers :
    /\ Planned(p) /\ job[p].ServiceSpec \in job[p].Excludes
    /\ Len(actions[p]) = 2
    /\ actions[p][2] = releaseActionPrintf("Specified service is excluded; ignoring.")

\* C30: when a planner fails on a query of the cluster or of the registry,
\* the release stops there: execute is not entered, so no description is
\* reported, no body runs, no release context is made or cleaned, and the
\* next step of the call is the return of Release with the planner's error.
C30_PlanningErrorAborts ==
  [][\A p \in Callers :
       /\ err'[p] = ErrPlan =>
            /\ pc'[p] = "unwind"
            /\ trace'[p] = <<Ev("status", NoAction, "Calculating release actions.")>>
            /\ actions'[p] = <<>> /\ rc'[p] = NewReleaseContext /\ cleaned'[p] = 0
       /\ (err[p] = ErrPlan /\ pc'[p] # pc[p]) => pc'[p] = "idle" /\ ret' = ErrPlan]_vars

\* a planner of an EXECUTE release failed on a query
C30_Witness ==
  \E p \in Callers :
    /\ pc[p] = "unwind" /\ err[p] = ErrPlan
    /\ job[p].Kind = ReleaseKindExecute
    /\ relType[p] \in ImageUpdatingModes


(***************************************************************************)
(* Properties of the order of what execute reports                         *)
(***************************************************************************)
\* the number of descriptions reported up to position i of a trace: the
\* place in the plan of the action position i belongs to
ActionAt(tr, i) == Cardinality({j \in 1..i : tr[j].k = "desc"})

\* the action types whose body returns a non-empty result when it succeeds
ResultTypes == {"Clone", "FindPodController", "UpdatePodController", "CommitAndPush"}

\* C31: within a release the actions run one after another in plan order:
\* everything execute reports or does belongs to the action whose
\* description was reported last, the n-th description is the one of the
\* n-th action of the plan, what the body does comes after the description
\* of its action, and its error or its non-empty result comes after all the
\* body did and before the description of the next action; an action whose
\* successful body has a non-empty result has that result reported before
\* the next description.
C31_SinkOrder ==
  \A p \in Callers :
    pc[p] \in {"exec", "unwind"} =>
      LET tr == trace[p]
      IN /\ Descs(tr) = SubSeq(actions[p], 1, Len(Descs(tr)))
         /\ \A i \in 2..Len(tr) :
              /\ ActionAt(tr, i) >= 1
              /\ tr[i].a = actions[p][ActionAt(tr, i)]
              /\ tr[i].k \in {"result", "error"} =>
                   /\ i = Len(tr) \/ tr[i + 1].k = "desc"
                   /\ tr[i].k = "result" => tr[i].text # ""
              /\ (tr[i].k = "desc" /\ i > 2) =>
                   LET prev == tr[i - 1]
                   IN /\ prev.k # "error"
                      /\ (prev.a.type \in ResultTypes /\ job[p].Kind = ReleaseKindExecute)
                           => prev.k = "result"

\* an EXECUTE release has reported description, effect and result of the
\* clone and of a manifest update, the description and the result of the
\* commit, and is at the regrade
C31_Witness ==
  \E p \in Callers :
    /\ pc[p] = "exec" /\ job[p].Kind = ReleaseKindExecute
    /\ idx[p] <= Len(actions[p]) /\ actions[p][idx[p]].type = "RegradeServices"
    /\ \E i \in DOMAIN trace[p] :
         /\ i + 5 <= Len(trace[p])
         /\ trace[p][i].k = "desc" /\ trace[p][i].a.type = "Clone"
         /\ trace[p][i + 1].k = "clone" /\ trace[p][i + 2].k = "result"
         /\ trace[p][i + 3].k = "desc" /\ trace[p][i + 4].k = "write"
         /\ trace[p][i + 5].k = "result"


(***************************************************************************)
(* Properties of a warm call                                               *)
(***************************************************************************)
\* a warm call has returned (and no other has started since)
WarmReturned == wpc \in {"pass", "select", "exited"} /\ wImg # NoImage

\* a warm call is between the making of its client and its return
WarmRunning == wpc \in {"tags", "store", "lookup", "fanout", "send"}

\* the tags the lookups of the call put into toUpdate
ToFetch == {t \in WarmTags : wSeen[t] \in {"missing", "expiring"}}

\* C32: a warm call returns only after every fetch goroutine it spawned has
\* finished its fetch: once it has returned none is in flight, and each tag
\* of toUpdate has been fetched; client.Cancel is called exactly once on
\* every return after ClientFor succeeded (and not when ClientFor failed),
\* and not before the return, so never while a fetch is using the client.
C32_CancelOnceAfterFetches ==
  /\ WarmRunning => wClient = "open" /\ wCancels = 0
  /\ WarmReturned =>
       /\ InFlight = {} /\ awaitFetchers = 0 /\ toUpdate = <<>>
       /\ wFetched = ToFetch
       /\ IF wFail = "ClientFor"
          THEN wClient = "none" /\ wCancels = 0
          ELSE wClient = "cancelled" /\ wCancels = 1
  /\ InFlight # {} => wClient = "open"

\* a call with room for two fetches at once has returned after two fetches,
\* having cancelled its client once
C32_Witness ==
  /\ WarmReturned /\ burst = 2
  /\ Cardinality(wFetched) = 2
  /\ wClient = "cancelled" /\ wCancels = 1
  /\ wWrote # {} /\ wWrote # wFetched


\* a step of Loop that calls warm for an image
WarmCalled == \E id \in WarmImages : WarmStart(id)

\* C33 (as stated): once stop was raised while a pass was running, Loop calls
\* warm for no further image and starts no further pass.
C33_AsStated ==
  [][(stop /\ stopAt >= 1) => ~WarmCalled /\ ~SelectTick]_vars

\* what Loop does: stop is read only by the select, so Loop leaves only from
\* its select with stop raised, and does nothing once it has left
C33_StopSeenAtSelect ==
  [][/\ (wpc' = "exited" /\ wpc # "exited") => (wpc = "select" /\ stop)
     /\ wpc = "exited" => (~WarmCalled /\ ~SelectTick /\ wpc' = "exited")]_vars

\* stop was raised during a pass, and Loop is warming an image in a later
\* pass
C33_Failure ==
  /\ stop /\ stopAt >= 1
  /\ passes > stopAt
  /\ WarmRunning


\* C34 (as stated): a warm call that has tags to refresh eventually returns
\* from its fan-out, whatever Burst is, when the warmer's steps are scheduled
\* and every registry and cache call returns.
C34_AsStated == (wpc \in {"fanout", "send"}) ~> (wpc = "pass")

\* with a token channel that holds at least one token the fan-out returns
C34_ReturnsWhenBurstPositive ==
  (wpc \in {"fanout", "send"} /\ burst >= 1) ~> (wpc = "pass")

\* with Burst 0 the fan-out never gets past its first send: the counter is
\* raised once, no goroutine is ever started and toUpdate stays whole
C34_NoSendWithoutRoom ==
  (burst = 0 /\ wpc \in {"fanout", "send"}) =>
    /\ wTasks = {} /\ wFetched = {}
    /\ awaitFetchers = (IF wpc = "send" THEN 1 ELSE 0)
    /\ Len(toUpdate) = Cardinality(ToFetch)
    /\ toUpdate # <<>>

\* a call with Burst 0 and two tags to refresh stands at its first send,
\* with nothing to stop it
C34_Failure ==
  /\ burst = 0 /\ wpc = "send" /\ ~stop
  /\ awaitFetchers = 1
  /\ Len(toUpdate) = 2
  /\ wTasks = {}


\* the entry is not cached, or expires no later than the refresh horizon
DueForRefresh(entry, at) ==
  ~entry.cached \/ entry.exp <= at + refreshWhenExpiryWithin

\* C35: a lookup that answers puts a tag into toUpdate exactly when its entry
\* is not cached or expires within refreshWhenExpiryWithin (the horizon
\* included); a call fetches only the tags of toUpdate, and all of them by
\* the time it returns; an entry that expires later is neither fetched nor
\* written; every write of a manifest changes the one key of the fetched tag
\* to a value that does not depend on the value it had.
C35_FetchedIffDue ==
  /\ [](/\ wFetched \subseteq ToFetch
        /\ wWrote \subseteq wFetched
        /\ WarmReturned => wFetched = ToFetch
        /\ \A t \in WarmTags :
             wSeen[t] = "fresh" =>
               /\ t \notin wFetched /\ t \notin wWrote
               /\ cache[wImg][t].cached)
  /\ [][/\ \A t \in LookedUp :
             /\ t \in wTags /\ wpc = "lookup"
             /\ wSeen'[t] \in EntryStates \cup {"err"}
             /\ wSeen'[t] # "err" =>
                  /\ (wSeen'[t] \in {"missing", "expiring"})
                        <=> DueForRefresh(cache[wImg][t], now)
                  /\ (wSeen'[t] = "missing") <=> ~cache[wImg][t].cached
        /\ (cache' # cache \/ WrittenBy # {}) =>
             \E t \in ToFetch :
               /\ wWrote' = wWrote \cup {t}
               /\ cache' = [cache EXCEPT ![wImg][t] = FreshEntry(now)]
               /\ \A e \in CacheEntries :
                    EntryAfterFetch(e, "ok", now) = FreshEntry(now)
       ]_vars

\* a call has returned after it refreshed an entry that expired exactly at
\* the horizon and left alone one that expires later
C35_Witness ==
  /\ WarmReturned
  /\ \E t \in wTags : wSeen[t] = "expiring" /\ t \in wWrote
  /\ \E t \in wTags : wSeen[t] = "fresh" /\ t \notin wFetched


\* the steps of warm that end the call when they fail
EarlySteps == {"ClientFor", "Tags", "SetKey"}

\* C36: a warm call looks up a manifest expiration or fetches a manifest
\* only after it wrote the tag list; when ClientFor, client.Tags or the
\* write of the tag list failed the call has returned without a lookup,
\* without a fetch and without a manifest write, and when ClientFor or
\* client.Tags failed it has written nothing to the cache, the tag list
\* included.
C36_TagListFirst ==
  /\ (wpc \in {"lookup", "fanout", "send"} \/ wSeen # NotSeen \/ wTasks # {}
        \/ wFetched # {} \/ wWrote # {}) => wStored
  /\ wFail \in EarlySteps =>
       /\ WarmReturned
       /\ wSeen = NotSeen /\ toUpdate = <<>> /\ wTasks = {}
       /\ wFetched = {} /\ wWrote = {}
  /\ wFail \in {"ClientFor", "Tags"} => ~wStored /\ wTags = {}

\* a call has returned on a failed write of the tag list, for an image
\* with a tag whose manifest was due for a refresh
C36_Witness ==
  /\ WarmReturned /\ wFail = "SetKey"
  /\ \E t \in wTags : DueForRefresh(cache[wImg][t], now)
  /\ wClient = "cancelled"


\* the runs of a log that have the manifest o on standard input
RunsSending(log, o) ==
  {i \in DOMAIN log : \E k \in DOMAIN log[i].stdin : log[i].stdin[k] = o}

\* C37: after an execute of part_000 every manifest that was staged under an
\* operation is on the standard input of the bulk run of one sub-batch of
\* that operation, the one with the arguments `--namespace default` when it
\* declares the namespace default or none and the one without a namespace
\* argument otherwise, and every run that has the manifest on its standard
\* input has exactly those arguments: none runs the other operation or
\* belongs to the other sub-batch.
C37_OneSubBatch ==
  syncImpl = "part_000" =>
    \A c \in ToSet(cmds) : \A n \in DOMAIN lastSet[c] :
      LET o == lastSet[c][n]
          args == IF o.ns = "default" \/ o.ns = ""
                  THEN <<c, "--namespace", "default">>
                  ELSE <<c>>
          sent == RunsSending(syncLog, o)
      IN /\ sent # {}
         /\ \A i \in sent : syncLog[i].args = args
         /\ \E i \in sent :
              /\ Len(syncLog[i].stdin) =
                   Len(SelectSeq(lastSet[c],
                                 LAMBDA p : (p.ns \in {"", "default"})
                                              = (o.ns \in {"", "default"})))
              /\ \A j \in sent : i <= j

\* an execute ran with a manifest without namespace, one of the namespace
\* default and one of another namespace, under both operations
C37_Witness ==
  /\ syncImpl = "part_000"
  /\ lastSet["delete"] # <<>> /\ lastSet["apply"] # <<>>
  /\ \A ns \in Namespaces :
       \E c \in ToSet(cmds) : \E n \in DOMAIN lastSet[c] : lastSet[c][n].ns = ns
  /\ Len(syncLog) >= 4

====
